---- MODULE Spec2Model ----
(***************************************************************************)
(* Multipart-upload completion / abort engine of the S3 gateway            *)
(* (src/s3api/handlers.py, class MultipartUploadHandler).                  *)
(*                                                                         *)
(* The store holds one upload session (status), its part records and part *)
(* byte storage (parts) and the destination object (obj).  Requests run   *)
(* in slots; every store access of a handler is one step, so that the     *)
(* steps of two requests interleave the way two worker processes do.      *)
(***************************************************************************)
EXTENDS Integers, Sequences, FiniteSets, TLC

VARIABLES
    status,     \* state of the upload-session record in the store
    parts,      \* part number -> part record (metadata and byte storage)
    obj,        \* destination object: metadata and backing bytes
    req,        \* request slot -> local state of the request running in it
    vin,        \* inputs of a stand-alone run of a function (the completion
                \* validation, the authenticator)
    vout        \* its result

vars == <<status, parts, obj, req, vin, vout>>

(***************************************************************************)
(* Bounds of the model and program constants.                              *)
(***************************************************************************)
MaxParts == 3

MULTIPART_UPLOAD_MIN_SIZE == 5242880

PartNums == 1..MaxParts

\* Part sizes the inputs are drawn from: 1 KiB, 4 MiB, 5 MiB.
PartSizes == {1024, 4194304, 5242880}

\* The characters of a hash string: the double quote and two hex digests.
Quote == "q"
Digests == {<<"a">>, <<"b">>}

(***************************************************************************)
(* Sequence helpers.                                                       *)
(***************************************************************************)
InSeq(x, s) == \E i \in 1..Len(s) : s[i] = x

SeqToSet(s) == {s[i] : i \in 1..Len(s)}

Last(s) == s[Len(s)]

\* The ascending sequence of a set of numbers.
RECURSIVE SortedSeq(_)
SortedSeq(S) ==
    IF S = {} THEN <<>>
    ELSE LET m == CHOOSE x \in S : \A y \in S : x <= y
         IN  <<m>> \o SortedSeq(S \ {m})

\* Every ordering (without repetition) of the elements of a set.
RECURSIVE Orderings(_)
Orderings(S) ==
    IF S = {} THEN {<<>>}
    ELSE UNION {{<<x>> \o t : t \in Orderings(S \ {x})} : x \in S}

Reverse(s) == [i \in 1..Len(s) |-> s[Len(s) + 1 - i]]

\* The orders in which a queryset yields the rows S while whole requests are
\* run: by ascending or by descending part number.  The validation on its
\* own is run on every order.
StoreOrders(S) == {SortedSeq(S), Reverse(SortedSeq(S))}

RECURSIVE SumSizes(_, _)
SumSizes(S, size) ==
    IF S = {} THEN 0
    ELSE LET x == CHOOSE y \in S : TRUE
         IN  size[x] + SumSizes(S \ {x}, size)

(***************************************************************************)
(* str.strip('"'): drop every leading and trailing quote character.        *)
(***************************************************************************)
RECURSIVE LStrip(_, _)
LStrip(s, c) == IF s # <<>> /\ Head(s) = c THEN LStrip(Tail(s), c) ELSE s

RECURSIVE RStrip(_, _)
RStrip(s, c) ==
    IF s # <<>> /\ s[Len(s)] = c THEN RStrip(SubSeq(s, 1, Len(s) - 1), c) ELSE s

Strip(s, c) == RStrip(LStrip(s, c), c)

(***************************************************************************)
(* get_upload_parts_and_validate.  qs is the sequence of the session's     *)
(* part records in the order the store returns them; complete_parts maps a *)
(* requested part number to the client's record of it (with or without an  *)
(* ETag field); complete_numbers is the ascending list of the requested    *)
(* part numbers.  The result carries err = "none" or the S3Error raised;    *)
(* used lists the keys of used_upload_parts in insertion order.            *)
(***************************************************************************)
\* PartTooSmall without the exception for the last requested part.
PartTooSmall_NoLastException(part, num, last_part_number) ==
    part.size < MULTIPART_UPLOAD_MIN_SIZE

PartTooSmall(part, num, last_part_number) ==
    part.size < MULTIPART_UPLOAD_MIN_SIZE /\ num # last_part_number

ETagMissing(c_part) == "ETag" \notin DOMAIN c_part

\* ETagMismatch that compares the hash as the client wrote it.
ETagMismatch_NoStrip(c_part, part) == c_part.ETag # part.part_md5

ETagMismatch(c_part, part) == Strip(c_part.ETag, Quote) # part.part_md5

ValidateStart ==
    [err |-> "none", msg |-> 0, used |-> <<>>, unused |-> <<>>, md5s |-> <<>>]

\* f'"{hex_md5}-{count}"': the hash is kept as the digest bytes fed to it.
MakeETag(md5s, count) == [quoted |-> TRUE, hex_md5 |-> md5s, parts_count |-> count]

NoETag == [quoted |-> FALSE, hex_md5 |-> <<>>, parts_count |-> 0]

RECURSIVE ValidateLoop(_, _, _, _, _)
ValidateLoop(qs, i, complete_parts, complete_numbers, acc) ==
    IF i > Len(qs) THEN acc
    ELSE
      LET part == qs[i]
          num == part.part_num
          last_part_number == Last(complete_numbers)
      IN  IF InSeq(num, complete_numbers)
          THEN LET c_part == complete_parts[num]
               IN  IF PartTooSmall(part, num, last_part_number)
                   THEN [acc EXCEPT !.err = "EntityTooSmall"]
                   ELSE IF ETagMissing(c_part)
                   THEN [acc EXCEPT !.err = "InvalidPart", !.msg = num]
                   ELSE IF ETagMismatch(c_part, part)
                   THEN [acc EXCEPT !.err = "InvalidPart", !.msg = num]
                   ELSE ValidateLoop(qs, i + 1, complete_parts, complete_numbers,
                            [acc EXCEPT !.used = Append(@, num),
                                        !.md5s = @ \o part.part_md5])
          ELSE ValidateLoop(qs, i + 1, complete_parts, complete_numbers,
                   [acc EXCEPT !.unused = Append(@, num)])

get_upload_parts_and_validate(qs, complete_parts, complete_numbers) ==
    LET r == ValidateLoop(qs, 1, complete_parts, complete_numbers, ValidateStart)
        obj_parts_count == Len(r.used)
    IN  IF r.err # "none"
        THEN [err |-> r.err, msg |-> r.msg, used |-> <<>>, unused |-> <<>>,
              obj_etag |-> NoETag]
        ELSE IF obj_parts_count # Cardinality(DOMAIN complete_parts)
        THEN [err |-> "InvalidPart", msg |-> 0, used |-> <<>>, unused |-> <<>>,
              obj_etag |-> NoETag]
        ELSE [err |-> "none", msg |-> 0, used |-> r.used, unused |-> r.unused,
              obj_etag |-> MakeETag(r.md5s, obj_parts_count)]

(***************************************************************************)
(* The store.                                                              *)
(***************************************************************************)
SessionStates == {"uploading", "composing", "completed", "deleted"}

\* The stored hash of a part (parts 1 and 3 share a digest).
PartMd5(n) == IF n % 2 = 1 THEN <<"a">> ELSE <<"b">>

\* A part never uploaded, or whose record and bytes are gone.
NoPart(n) ==
    [meta |-> FALSE, data |-> FALSE, size |-> 0, part_md5 |-> PartMd5(n),
     obj_id |-> 0, obj_offset |-> 0]

\* An uploaded part, not yet combined into an object.
NewPart(n, size) == [NoPart(n) EXCEPT !.meta = TRUE, !.data = TRUE, !.size = size]

\* The records of a parts queryset, in the order given by the sequence ns.
PartRows(ps, ns) ==
    [i \in 1..Len(ns) |->
        [part_num |-> ns[i], size |-> ps[ns[i]].size, part_md5 |-> ps[ns[i]].part_md5]]

\* get_parts_queryset_by_upload_id: every part record of the session.
SessionParts(ps) == {n \in PartNums : ps[n].meta}

\* get_parts_queryset_by_upload_id_obj_id(obj_id=0): the part records of the
\* session that no completion has attached to an object.
UncombinedParts(ps) == {n \in PartNums : ps[n].meta /\ ps[n].obj_id = 0}

\* The destination object: its metadata record (exists, si), whether the
\* bytes of an earlier upload are still in its byte storage (old), and
\* the end of the written range of the byte storage (extent).
NoObject == [exists |-> FALSE, si |-> 0, old |-> FALSE, extent |-> 0]

\* An object that already holds bytes under the destination key.
OldObject == [exists |-> TRUE, si |-> 7, old |-> TRUE, extent |-> 7]

\* The byte storage is read in blocks of ChunkSize bytes.
ChunkSize == 8 * 1024 * 1024

NumBlocks(size) == (size + ChunkSize - 1) \div ChunkSize

BlockLen(size, b) == IF b < NumBlocks(size) THEN ChunkSize
                     ELSE size - (NumBlocks(size) - 1) * ChunkSize

(***************************************************************************)
(* Upload-session record operations.                                       *)
(***************************************************************************)
\* upload.set_composing(): the compare-and-set uploading -> composing.
set_composing_ok(st) == st = "uploading"

\* upload.safe_delete(): ok says whether the store carried the delete out.
safe_delete(st, ok) == IF ok THEN "deleted" ELSE st

\* upload.set_uploading() and upload.set_completed() write an existing record.
set_uploading(st) == IF st = "deleted" THEN st ELSE "uploading"

set_completed(st) == IF st = "deleted" THEN st ELSE "completed"

(***************************************************************************)
(* Request slots.                                                          *)
(***************************************************************************)
IdleReq ==
    [pc |-> "idle", kind |-> "none", snap |-> "none", resp |-> "none",
     complete_numbers |-> <<>>, complete_parts |-> <<>>,
     used |-> <<>>, unused |-> <<>>, obj_etag |-> NoETag,
     idx |-> 0, blk |-> 0, offset |-> 0, poff |-> 0,
     todo |-> <<>>, failed |-> <<>>, all_len |-> 0, dels |-> 0,
     yielded_doctype |-> FALSE, out |-> <<>>, t_outer |-> 0, t_inner |-> 0]

\* The request has answered: only its response is kept.
Answered(q, resp) ==
    [IdleReq EXCEPT !.pc = "done", !.kind = q.kind,
                    !.resp = resp, !.out = q.out, !.dels = q.dels]

\* One keep-alive unit of the stream; the first unit carries the preamble.
KeepAlive(q) ==
    [q EXCEPT !.out = Append(@, [unit |-> "keepalive", decl |-> ~q.yielded_doctype]),
              !.yielded_doctype = TRUE]

\* Terminal that always renders the preamble.
Terminal_WithPreamble(q, unit) ==
    [q EXCEPT !.out = Append(@, [unit |-> unit, decl |-> TRUE])]

\* The terminal payload, rendered with the preamble unless it was sent.
Terminal(q, unit) ==
    [q EXCEPT !.out = Append(@, [unit |-> unit, decl |-> ~q.yielded_doctype])]

\* now_time - start_time after a step that took d seconds, capped at 10.
Elapsed(t, d) == IF t + d >= 10 THEN 10 ELSE t + d

\* KeepAliveDue of a generator that never emits a keep-alive unit.
KeepAliveDue_Never(t) == FALSE

\* "if now_time - start_time < 10: start_time = now_time; continue": a unit
\* is due when the test fails.
KeepAliveDue(t) == ~(t < 10)

\* start_time after the test: reset only when no unit was due.
Restart(t) == IF KeepAliveDue(t) THEN t ELSE 0

Set(r, q) == req' = [req EXCEPT ![r] = q]

\* RevertOnError of an except clause that leaves the session as it is.
RevertOnError_Skip(st) == st

\* "upload.set_uploading()" of the two except clauses of complete_iter.
RevertOnError(st) == set_uploading(st)

\* "except S3Error / except Exception" of complete_iter: the terminal unit
\* is the error payload (the session is set back by the action).
Failed(q) == Answered(Terminal(q, "Error"), "stream")

(***************************************************************************)
(* The caller looks the session up and hands the handler its record.  A   *)
(* new request takes the first slot in which no request is running.        *)
(***************************************************************************)
Running(r) == req[r].pc \notin {"idle", "done"}

FreeSlot(r) == ~Running(r) /\ (r = "r2" => Running("r1"))

LoadComplete(r, CR) ==
    /\ FreeSlot(r)
    /\ status # "deleted"
    /\ \E c \in CR :
         Set(r, [IdleReq EXCEPT !.pc = "c_gate", !.kind = "complete",
                                !.snap = status,
                                !.complete_numbers = c.complete_numbers,
                                !.complete_parts = c.complete_parts])
    /\ UNCHANGED <<status, parts, obj, vin, vout>>

LoadAbort(r) ==
    /\ FreeSlot(r)
    /\ status # "deleted"
    /\ Set(r, [IdleReq EXCEPT !.pc = "a_gate", !.kind = "abort", !.snap = status])
    /\ UNCHANGED <<status, parts, obj, vin, vout>>

(***************************************************************************)
(* complete_multipart_upload_handle.                                       *)
(***************************************************************************)
\* CompleteGate without the test for a completed session.
CompleteGate_NoCompletedCheck(snap) ==
    IF snap = "composing" THEN "in_progress" ELSE "acquire"

\* CompleteGate without the test for a composing session.
CompleteGate_NoComposingCheck(snap) ==
    IF snap = "completed" THEN "no_such_upload" ELSE "acquire"

\* The branch the handler takes on the record it was given.
CompleteGate(snap) ==
    IF snap = "completed" THEN "no_such_upload"
    ELSE IF snap = "composing" THEN "in_progress"
    ELSE "acquire"

CGate(r) ==
    LET q == req[r]
        g == CompleteGate(q.snap)
    IN  /\ q.pc = "c_gate"
        /\ IF g = "no_such_upload"
           THEN \E ok \in BOOLEAN :
                  /\ status' = safe_delete(status, ok)
                  /\ Set(r, Answered([q EXCEPT !.dels = 1], "NoSuchUpload"))
           ELSE IF g = "in_progress"
           THEN /\ status' = status
                /\ Set(r, Answered(q, "CompleteMultipartAlreadyInProgress"))
           ELSE IF set_composing_ok(status)
           THEN /\ status' = "composing"
                /\ Set(r, [q EXCEPT !.pc = "c_prepare"])
           ELSE /\ status' = status
                /\ Set(r, Answered(q, "InternalError"))
        /\ UNCHANGED <<parts, obj, vin, vout>>

\* "if not created and obj.si != 0": an existing non-empty object.
NeedsReset(created, si) == ~created /\ si # 0

CPrepare(r) ==
    LET q == req[r]
        created == ~obj.exists
        o == IF created THEN [NoObject EXCEPT !.exists = TRUE] ELSE obj
    IN  /\ q.pc = "c_prepare"
        /\ IF NeedsReset(created, o.si)
           THEN \E ok \in BOOLEAN :
                  IF ok
                  THEN /\ obj' = [o EXCEPT !.si = 0, !.old = FALSE, !.extent = 0]
                       /\ Set(r, [q EXCEPT !.pc = "c_validate"])
                  ELSE /\ obj' = o
                       /\ Set(r, Answered(q, "InvalidRequest"))
           ELSE /\ obj' = o
                /\ Set(r, [q EXCEPT !.pc = "c_validate"])
        /\ UNCHANGED <<status, parts, vin, vout>>

CValidate(r) ==
    LET q == req[r]
    IN  /\ q.pc = "c_validate"
        /\ \E ns \in StoreOrders(SessionParts(parts)) :
             LET v == get_upload_parts_and_validate(
                          PartRows(parts, ns), q.complete_parts, q.complete_numbers)
             IN  IF v.err # "none"
                 THEN Set(r, Answered(q, v.err))
                 ELSE Set(r, [q EXCEPT !.pc = "c_part", !.resp = "stream",
                                       !.used = v.used, !.unused = v.unused,
                                       !.obj_etag = v.obj_etag, !.idx = 1])
        /\ UNCHANGED <<status, parts, obj, vin, vout>>

(***************************************************************************)
(* save_part_to_object_iter and the combine loop of complete_iter.         *)
(***************************************************************************)
\* obj_rados.write(offset, data_block): the byte storage grows to hold it.
WriteExtent(extent, offset, len) ==
    IF offset + len > extent THEN offset + len ELSE extent

\* The outcomes of the one retry of a store call: it is made only when the
\* first attempt failed.
Retry(first) == IF first THEN {TRUE} ELSE BOOLEAN

\* WriteOk of a write that is never retried.
WriteOk_FirstOnly(w1, w2) == w1

\* A block write with its one retry.
WriteOk(w1, w2) == w1 \/ w2

\* The end of a loop iteration of a generator that took d more seconds:
\* either start_time is reset, or one keep-alive unit is emitted.
IterationEnd(q, d) ==
    LET t == Elapsed(q.t_inner, d)
        q1 == [q EXCEPT !.t_inner = Restart(t), !.t_outer = Elapsed(@, d)]
    IN  IF KeepAliveDue(t) THEN KeepAlive(q1) ELSE q1

CBlock(r, D) ==
    LET q == req[r]
        num == q.complete_numbers[q.idx]
        part == parts[num]
    IN  /\ q.pc = "c_part"
        /\ q.blk < NumBlocks(part.size)
        /\ \/ \* reading the part's bytes raises
              /\ status' = RevertOnError(status)
              /\ Set(r, Failed(q))
              /\ obj' = obj
           \/ \* the part's byte storage is gone: nothing is read
              /\ ~part.data
              /\ Set(r, [q EXCEPT !.blk = NumBlocks(part.size)])
              /\ UNCHANGED <<status, obj>>
           \/ /\ part.data
              /\ \E w1 \in BOOLEAN, d \in D : \E w2 \in Retry(w1) :
                   IF WriteOk(w1, w2)
                   THEN /\ obj' = [obj EXCEPT !.extent =
                                      WriteExtent(@, q.offset + q.poff,
                                                  BlockLen(part.size, q.blk + 1))]
                        /\ Set(r, IterationEnd(
                               [q EXCEPT !.blk = @ + 1,
                                         !.poff = @ + BlockLen(part.size, q.blk + 1)], d))
                        /\ status' = status
                   ELSE /\ status' = RevertOnError(status)
                        /\ Set(r, Failed(q))
                        /\ obj' = obj
        /\ UNCHANGED <<parts, vin, vout>>

\* NextOffset counting parts instead of bytes.
NextOffset_Count(offset, size) == offset + 1

\* The offset the next part is written at.
NextOffset(offset, size) == offset + size

\* part.save(...), then the rest of the iteration of the combine loop.  Of
\* the saved fields the record keeps the offset and the object reference
\* (obj_etag and parts_count are the same for every part of a completion).
CSave(r) ==
    LET q == req[r]
        num == q.complete_numbers[q.idx]
        part == parts[num]
        more == q.idx < Len(q.complete_numbers)
        q1 == [q EXCEPT !.offset = NextOffset(q.offset, part.size), !.poff = 0,
                        !.blk = 0, !.idx = @ + 1, !.t_inner = 0,
                        !.t_outer = Restart(q.t_outer),
                        !.pc = IF more THEN "c_part" ELSE "c_meta"]
    IN  /\ q.pc = "c_part"
        /\ q.blk >= NumBlocks(part.size)
        /\ \E ok \in BOOLEAN :
             IF ok /\ part.meta
             THEN /\ parts' = [parts EXCEPT ![num] =
                                 [@ EXCEPT !.obj_offset = q.offset, !.obj_id = 1]]
                  /\ Set(r, IF KeepAliveDue(q.t_outer) THEN KeepAlive(q1) ELSE q1)
                  /\ status' = status
             ELSE /\ status' = RevertOnError(status)
                  /\ Set(r, Failed(q))
                  /\ parts' = parts
        /\ UNCHANGED <<obj, vin, vout>>

\* CMeta that starts the cleanup although update_obj_metedata failed.
CMeta_CleanupAnyway(r) ==
    LET q == req[r]
    IN  /\ q.pc = "c_meta"
        /\ \E ok \in BOOLEAN :
             /\ obj' = IF ok THEN [obj EXCEPT !.si = q.offset] ELSE obj
             /\ Set(r, [q EXCEPT !.pc = "c_unused", !.todo = q.unused,
                                 !.idx = 1, !.t_inner = 0, !.t_outer = 0])
             /\ status' = status
        /\ UNCHANGED <<parts, vin, vout>>

\* update_obj_metedata, then the start of the cleanup.
CMeta(r) ==
    LET q == req[r]
    IN  /\ q.pc = "c_meta"
        /\ \E ok \in BOOLEAN :
             IF ok
             THEN /\ obj' = [obj EXCEPT !.si = q.offset]
                  /\ Set(r, [q EXCEPT !.pc = "c_unused", !.todo = q.unused,
                                      !.idx = 1, !.t_inner = 0, !.t_outer = 0])
                  /\ status' = status
             ELSE /\ status' = RevertOnError(status)
                  /\ Set(r, Failed(q))
                  /\ obj' = obj
        /\ UNCHANGED <<parts, vin, vout>>

(***************************************************************************)
(* clear_parts_cache_iter: one part of the loop.                           *)
(***************************************************************************)
\* p.safe_delete() with its one retry.
MetaDeleted(m1, m2) == m1 \/ m2

\* part_rados.delete() with its one retry.
DataDeleted(b1, b2) == b1 \/ b2

\* ClearPart that never deletes the part record.
ClearPart_KeepMetadata(ps, n, is_rm_metadata, m1, m2, b1, b2) ==
    [ps EXCEPT ![n] = IF DataDeleted(b1, b2) THEN [@ EXCEPT !.data = FALSE] ELSE @]

\* ClearPart that deletes the part record whatever is_rm_metadata says.
ClearPart_IgnoreFlag(ps, n, is_rm_metadata, m1, m2, b1, b2) ==
    LET p1 == [NoPart(n) EXCEPT !.data = ps[n].data, !.size = ps[n].size]
        p2 == IF DataDeleted(b1, b2) THEN [p1 EXCEPT !.data = FALSE] ELSE p1
    IN  [ps EXCEPT ![n] = p2]

ClearPart(ps, n, is_rm_metadata, m1, m2, b1, b2) ==
    LET p1 == IF is_rm_metadata /\ MetaDeleted(m1, m2)
              THEN [NoPart(n) EXCEPT !.data = ps[n].data, !.size = ps[n].size]
              ELSE ps[n]
        p2 == IF DataDeleted(b1, b2) THEN [p1 EXCEPT !.data = FALSE] ELSE p1
    IN  [ps EXCEPT ![n] = p2]

\* remove_failed_parts after the part.
ClearFailed(failed, n, is_rm_metadata, m1, m2) ==
    IF is_rm_metadata /\ ~MetaDeleted(m1, m2) THEN Append(failed, n) ELSE failed

\* The end of an iteration of clear_parts_cache_iter inside complete_iter.
ClearIterationEnd(q, d) ==
    LET t == Elapsed(q.t_inner, d)
        q1 == [q EXCEPT !.t_inner = Restart(t)]
    IN  IF KeepAliveDue(t) THEN KeepAlive(q1) ELSE q1

(***************************************************************************)
(* The cleanup of complete_iter.                                           *)
(***************************************************************************)
\* clear_parts_cache_iter(unused_upload_parts, is_rm_metadata=True); its
\* final list of failed parts is not looked at.
CUnused(r, D) ==
    LET q == req[r]
    IN  /\ q.pc = "c_unused"
        /\ IF q.idx <= Len(q.todo)
           THEN \/ \* the cleanup raises
                   /\ status' = RevertOnError(status)
                   /\ Set(r, Failed(q))
                   /\ parts' = parts
                \/ \E m1, b1 \in BOOLEAN, d \in D :
                   \E m2 \in Retry(m1), b2 \in Retry(b1) :
                     /\ parts' = ClearPart(parts, q.todo[q.idx], TRUE, m1, m2, b1, b2)
                     /\ Set(r, ClearIterationEnd([q EXCEPT !.idx = @ + 1], d))
                     /\ status' = status
           ELSE /\ Set(r, [q EXCEPT !.pc = "c_used", !.todo = q.used, !.idx = 1,
                                    !.t_inner = 0])
                /\ UNCHANGED <<status, parts>>
        /\ UNCHANGED <<obj, vin, vout>>

\* clear_parts_cache_iter(used_upload_parts, is_rm_metadata=False).
CUsed(r, D) ==
    LET q == req[r]
    IN  /\ q.pc = "c_used"
        /\ IF q.idx <= Len(q.todo)
           THEN \/ \* the cleanup raises
                   /\ status' = RevertOnError(status)
                   /\ Set(r, Failed(q))
                   /\ parts' = parts
                \/ \E b1 \in BOOLEAN, d \in D : \E b2 \in Retry(b1) :
                     /\ parts' = ClearPart(parts, q.todo[q.idx], FALSE, FALSE, FALSE, b1, b2)
                     /\ Set(r, ClearIterationEnd([q EXCEPT !.idx = @ + 1], d))
                     /\ status' = status
           ELSE /\ Set(r, [q EXCEPT !.pc = "c_delete", !.todo = <<>>, !.idx = 0,
                                    !.t_inner = 0])
                /\ UNCHANGED <<status, parts>>
        /\ UNCHANGED <<obj, vin, vout>>

\* FinishSession without the second safe_delete.
FinishSession_NoRetry(st, d1, d2) ==
    IF d1 THEN [status |-> safe_delete(st, TRUE), dels |-> 1]
    ELSE [status |-> set_completed(st), dels |-> 1]

\* FinishSession that leaves the record as it is when both deletions fail.
FinishSession_NoTombstone(st, d1, d2) ==
    IF d1 THEN [status |-> safe_delete(st, TRUE), dels |-> 1]
    ELSE [status |-> safe_delete(st, d2), dels |-> 2]

\* "if not upload.safe_delete(): if not upload.safe_delete():
\*  upload.set_completed()": the record afterwards and the number of
\* safe_delete calls made.
FinishSession(st, d1, d2) ==
    IF d1 THEN [status |-> safe_delete(st, TRUE), dels |-> 1]
    ELSE IF d2 THEN [status |-> safe_delete(st, TRUE), dels |-> 2]
    ELSE [status |-> set_completed(st), dels |-> 2]

\* The session record is removed and the result payload ends the stream.
CDelete(r) ==
    LET q == req[r]
    IN  /\ q.pc = "c_delete"
        /\ \E d1 \in BOOLEAN : \E d2 \in Retry(d1) :
             /\ status' = FinishSession(status, d1, d2).status
             /\ Set(r, Answered(Terminal(
                        [q EXCEPT !.dels = FinishSession(status, d1, d2).dels],
                        "Result"), "stream"))
        /\ UNCHANGED <<parts, obj, vin, vout>>

(***************************************************************************)
(* abort_multipart_upload.                                                 *)
(***************************************************************************)
\* AbortGate without the test for a composing session.
AbortGate_NoComposingCheck(snap) ==
    IF snap = "completed" THEN "no_such_upload" ELSE "clear"

AbortGate(snap) ==
    IF snap = "composing" THEN "in_progress"
    ELSE IF snap = "completed" THEN "no_such_upload"
    ELSE "clear"

AGate(r) ==
    LET q == req[r]
        g == AbortGate(q.snap)
    IN  /\ q.pc = "a_gate"
        /\ IF g = "in_progress"
           THEN /\ status' = status
                /\ Set(r, Answered(q, "CompleteMultipartAlreadyInProgress"))
           ELSE IF g = "no_such_upload"
           THEN \E ok \in BOOLEAN :
                  /\ status' = safe_delete(status, ok)
                  /\ Set(r, Answered([q EXCEPT !.dels = 1], "NoSuchUpload"))
           ELSE \E ns \in StoreOrders(UncombinedParts(parts)) :
                  /\ status' = status
                  /\ Set(r, [q EXCEPT !.pc = "a_pass1", !.todo = ns, !.idx = 1,
                                      !.all_len = Len(ns)])
        /\ UNCHANGED <<parts, obj, vin, vout>>

\* One part of a cleanup pass (the keep-alive markers are skipped).
APass(r) ==
    LET q == req[r]
    IN  /\ q.pc \in {"a_pass1", "a_pass2"}
        /\ q.idx <= Len(q.todo)
        /\ \E m1, b1 \in BOOLEAN : \E m2 \in Retry(m1), b2 \in Retry(b1) :
             /\ parts' = ClearPart(parts, q.todo[q.idx], TRUE, m1, m2, b1, b2)
             /\ Set(r, [q EXCEPT !.idx = @ + 1,
                                 !.failed = ClearFailed(@, q.todo[q.idx], TRUE, m1, m2)])
        /\ UNCHANGED <<status, obj, vin, vout>>

\* MajorityFailed that asks for more failures than there are parts.
MajorityFailed_All(failed_len, all_len) == failed_len > all_len

\* MajorityFailed with half of the parts counted as a majority.
MajorityFailed_AtLeastHalf(failed_len, all_len) == failed_len >= (all_len \div 2)

\* "if failed_len > (all_len // 2)".
MajorityFailed(failed_len, all_len) == failed_len > (all_len \div 2)

\* The list the first pass ends with.
ADecide1(r) ==
    LET q == req[r]
    IN  /\ q.pc = "a_pass1"
        /\ q.idx > Len(q.todo)
        /\ IF q.failed = <<>>
           THEN Set(r, [q EXCEPT !.pc = "a_delete", !.todo = <<>>, !.idx = 0,
                                 !.all_len = 0])
           ELSE IF MajorityFailed(Len(q.failed), q.all_len)
           THEN Set(r, Answered(q, "InternalError"))
           ELSE Set(r, [q EXCEPT !.pc = "a_pass2", !.todo = q.failed,
                                 !.failed = <<>>, !.idx = 1, !.all_len = 0])
        /\ UNCHANGED <<status, parts, obj, vin, vout>>

\* The list the second pass ends with: "elif not failed_parts_2".
ADecide2(r) ==
    LET q == req[r]
    IN  /\ q.pc = "a_pass2"
        /\ q.idx > Len(q.todo)
        /\ IF q.failed = <<>>
           THEN Set(r, Answered(q, "InternalError"))
           ELSE Set(r, [q EXCEPT !.pc = "a_delete", !.todo = <<>>, !.failed = <<>>,
                                 !.idx = 0])
        /\ UNCHANGED <<status, parts, obj, vin, vout>>

ADelete(r) ==
    LET q == req[r]
    IN  /\ q.pc = "a_delete"
        /\ \E ok \in BOOLEAN :
             /\ status' = safe_delete(status, ok)
             /\ Set(r, Answered([q EXCEPT !.dels = 1],
                                IF ok THEN "204" ELSE "InternalError"))
        /\ UNCHANGED <<parts, obj, vin, vout>>

(***************************************************************************)
(* The inputs.                                                             *)
(***************************************************************************)
Quoted(h) == <<Quote>> \o h \o <<Quote>>

\* What a client may send for part n: the stored hash quoted or bare,
\* another hash, or no ETag at all.
ClientPartChoices(n) ==
    {[PartNumber |-> n, ETag |-> e] :
        e \in {Quoted(PartMd5(n)), PartMd5(n), Quoted(PartMd5(n + 1))}}
    \cup {[PartNumber |-> n]}

GoodClientPart(n) == [PartNumber |-> n, ETag |-> Quoted(PartMd5(n))]

\* Every completion request over the part numbers: an ascending list of
\* distinct numbers and a record for each.
AllRequests ==
    UNION {{[complete_numbers |-> SortedSeq(S), complete_parts |-> f] :
               f \in {g \in [S -> UNION {ClientPartChoices(n) : n \in S}] :
                         \A n \in S : g[n] \in ClientPartChoices(n)}} :
           S \in (SUBSET PartNums) \ {{}}}

\* The session of the concurrent runs holds parts 1 and 2.
ConcPartNums == {1, 2}

\* A request for the parts S with every hash matching.
GoodRequest(S) ==
    [complete_numbers |-> SortedSeq(S),
     complete_parts |-> [n \in S |-> GoodClientPart(n)]]

\* A request for the parts S with a wrong hash for part n of S.
WrongHashRequest(S, n) ==
    [GoodRequest(S) EXCEPT
        !.complete_parts[n] = [PartNumber |-> n, ETag |-> Quoted(PartMd5(n + 1))]]

\* The requests of the concurrent runs.
PlainRequests ==
    {GoodRequest({1}), GoodRequest({1, 2}), WrongHashRequest({1}, 1)}

\* The requests of the sequential runs.
SeqRequests ==
    {GoodRequest({1}), GoodRequest({1, 2}), GoodRequest(PartNums)}
    \cup {WrongHashRequest({1, 2}, 1),
          [GoodRequest({1}) EXCEPT !.complete_parts[1] = [PartNumber |-> 1]]}

Slots == {"r1", "r2"}

NoInput == [qs |-> <<>>, complete_parts |-> <<>>, complete_numbers |-> <<>>]

NoOutput == [done |-> FALSE, err |-> "none", msg |-> 0, used |-> <<>>,
             unused |-> <<>>, obj_etag |-> NoETag]

(***************************************************************************)
(* Concurrent requests on one session.                                     *)
(***************************************************************************)
\* The sizes of the uploaded parts: 5 MiB, and 1 KiB for part 2.
UploadedSize(n) == IF n = 2 THEN 1024 ELSE 5242880

Init ==
    /\ status = "uploading"
    /\ parts = [n \in PartNums |->
                   IF n \in ConcPartNums THEN NewPart(n, UploadedSize(n)) ELSE NoPart(n)]
    /\ obj \in {NoObject, OldObject}
    /\ req = [r \in Slots |-> IdleReq]
    /\ vin = NoInput
    /\ vout = NoOutput

Next ==
    \E r \in Slots :
        \/ LoadComplete(r, PlainRequests)
        \/ LoadAbort(r)
        \/ CGate(r)
        \/ CPrepare(r)
        \/ CValidate(r)
        \/ CBlock(r, {0})
        \/ CSave(r)
        \/ CMeta(r)
        \/ CUnused(r, {0})
        \/ CUsed(r, {0})
        \/ CDelete(r)
        \/ AGate(r)
        \/ APass(r)
        \/ ADecide1(r)
        \/ ADecide2(r)
        \/ ADelete(r)

Spec == Init /\ [][Next]_vars

(***************************************************************************)
(* One request at a time, with the clock running.                          *)
(***************************************************************************)
\* The seconds one iteration may take.
Durations == {0, 5, 10}

\* The sizes of the uploaded parts: part 1 is 9 MiB (two blocks), part 2 is
\* 1 KiB or 5 MiB, the others 5 MiB.
SeqSizes ==
    {sz \in [PartNums -> {1024, 5242880, 9437184}] :
        /\ sz[1] = 9437184
        /\ sz[2] # 9437184
        /\ \A n \in PartNums \ {1, 2} : sz[n] = 5242880}

InitSeq ==
    /\ status = "uploading"
    /\ parts \in {[n \in PartNums |-> NewPart(n, sz[n])] : sz \in SeqSizes}
    /\ obj \in {NoObject, OldObject}
    /\ req = [r \in Slots |-> IdleReq]
    /\ vin = NoInput
    /\ vout = NoOutput

NextSeq ==
    \/ LoadComplete("r1", SeqRequests)
    \/ LoadAbort("r1")
    \/ CGate("r1")
    \/ CPrepare("r1")
    \/ CValidate("r1")
    \/ CBlock("r1", Durations)
    \/ CSave("r1")
    \/ CMeta("r1")
    \/ CUnused("r1", Durations)
    \/ CUsed("r1", Durations)
    \/ CDelete("r1")
    \/ AGate("r1")
    \/ APass("r1")
    \/ ADecide1("r1")
    \/ ADecide2("r1")
    \/ ADelete("r1")

SpecSeq == InitSeq /\ [][NextSeq]_vars

(***************************************************************************)
(* The completion validation on its own.                                   *)
(***************************************************************************)
\* The sizes a stored part may have: below the minimum (4 MiB for part 1,
\* 1 KiB for the others) or the minimum itself.
StoredSizes(n) == IF n = 1 THEN {4194304, 5242880} ELSE {1024, 5242880}

\* Every stored part list: any parts, any of their sizes, in any order.
StoredRows ==
    UNION {{[i \in 1..Len(ns) |->
                [part_num |-> ns[i], size |-> sz[ns[i]], part_md5 |-> PartMd5(ns[i])]] :
               ns \in Orderings(S),
               sz \in {f \in [S -> PartSizes] : \A n \in S : f[n] \in StoredSizes(n)}} :
           S \in SUBSET PartNums}

InitValidate ==
    /\ status = "uploading"
    /\ parts = [n \in PartNums |-> NoPart(n)]
    /\ obj = NoObject
    /\ req = [r \in Slots |-> IdleReq]
    /\ \E qs \in StoredRows, c \in AllRequests :
          vin = [qs |-> qs, complete_parts |-> c.complete_parts,
                 complete_numbers |-> c.complete_numbers]
    /\ vout = NoOutput

Validate ==
    /\ ~vout.done
    /\ vout' = [done |-> TRUE] @@
               get_upload_parts_and_validate(vin.qs, vin.complete_parts,
                                             vin.complete_numbers)
    /\ UNCHANGED <<status, parts, obj, req, vin>>

NextValidate == Validate

SpecValidate == InitValidate /\ [][NextValidate]_vars

(***************************************************************************)
(* Properties.                                                             *)
(***************************************************************************)
\* The request in slot r has taken the session into composing and has
\* not ended.
HoldsComposing(r) ==
    /\ req[r].kind = "complete"
    /\ req[r].pc \in {"c_prepare", "c_validate", "c_part", "c_meta",
                      "c_unused", "c_used", "c_delete"}

\* The step is one of the request in slot r.
StepOf(r) == req'[r] # req[r]

LastUnit(q) == q.out[Len(q.out)].unit

\* C1: of two concurrent completions of one session at most one holds
\* composing (runs the combine) at any time, and the one turned away at the
\* gate while the other holds composing answers "complete already in
\* progress".
C1_SecondCompletionInProgress ==
    [][/\ ~(HoldsComposing("r1") /\ HoldsComposing("r2"))'
       /\ \A r \in Slots : \A o \in Slots \ {r} :
            (/\ req[r].kind = "complete" /\ req[r].pc = "c_gate"
             /\ HoldsComposing(o) /\ status = "composing"
             /\ StepOf(r))
            => req'[r].resp = "CompleteMultipartAlreadyInProgress"]_vars

\* C2: while a completion holds the composing state of the session, no step
\* of an abort deletes part data, part records or the session record.
C2_AbortExcludedWhileComposing ==
    [][\A a \in Slots : \A c \in Slots \ {a} :
          (/\ req[a].kind = "abort" /\ StepOf(a)
           /\ HoldsComposing(c) /\ status = "composing")
          => (parts' = parts /\ status' = status)]_vars

C4_MidStreamErrorReverts ==
    [][\A r \in Slots :
          (/\ req[r].pc \in {"c_part", "c_meta", "c_unused", "c_used"}
           /\ req'[r].pc = "done")
          => (/\ status' = "uploading"
              /\ req'[r].resp = "stream"
              /\ LastUnit(req'[r]) = "Error"
              /\ \A i \in 1..(Len(req'[r].out) - 1) :
                    req'[r].out[i].unit = "keepalive")]_vars

\* A completion failed during the cleanup, after keep-alive units.
C4_Witness ==
    \E r \in Slots :
        /\ req[r].kind = "complete" /\ req[r].pc = "done"
        /\ req[r].resp = "stream" /\ Len(req[r].out) >= 2
        /\ LastUnit(req[r]) = "Error"
        /\ status = "uploading"
        /\ ~obj.old /\ obj.si > 0

\* C5: when the first cleanup pass of an abort ends with more than half of
\* its parts failed, the abort answers internal error at once: no part is
\* touched again and the session record is neither deleted nor asked to be.
C5_MajorityFailureShortCircuits ==
    [][\A r \in Slots :
          (/\ req[r].pc = "a_pass1" /\ req[r].idx > Len(req[r].todo)
           /\ 2 * Len(req[r].failed) > req[r].all_len
           /\ StepOf(r))
          => (/\ req'[r].pc = "done"
              /\ req'[r].resp = "InternalError"
              /\ req'[r].dels = 0
              /\ UNCHANGED <<status, parts>>)]_vars

\* An abort ended with internal error without asking for the deletion of
\* the session, two part records being left.
C5_Witness ==
    \E r \in Slots :
        /\ req[r].kind = "abort" /\ req[r].pc = "done"
        /\ req[r].resp = "InternalError" /\ req[r].dels = 0
        /\ status = "uploading"
        /\ Cardinality(SessionParts(parts)) >= 2

StreamEnds(r, unit) ==
    /\ req[r].kind = "complete" /\ req[r].resp = "stream"
    /\ req'[r].pc = "done" /\ LastUnit(req'[r]) = unit

\* C8: over every sequence of requests the session state changes only from
\* uploading to composing (a completion acquires the gate), from composing to
\* uploading (a completion's stream ends with an error), from composing to
\* deleted (a completion succeeds), from composing to completed (a
\* completion succeeds and both of its two deletions of the record failed),
\* from completed to deleted (a later request deletes the record) and from
\* uploading to deleted (an abort).
C8_StateTransitions ==
    [][status' # status =>
        \E r \in Slots :
          \/ /\ status = "uploading" /\ status' = "composing"
             /\ req[r].kind = "complete" /\ req[r].pc = "c_gate"
             /\ req'[r].pc = "c_prepare"
          \/ /\ status = "composing" /\ status' = "uploading"
             /\ StreamEnds(r, "Error")
          \/ /\ status = "composing" /\ status' = "deleted"
             /\ StreamEnds(r, "Result")
          \/ /\ status = "composing" /\ status' = "completed"
             /\ StreamEnds(r, "Result") /\ req'[r].dels = 2
          \/ /\ status = "completed" /\ status' = "deleted"
             /\ req[r].pc \in {"c_gate", "a_gate"}
             /\ req'[r].resp = "NoSuchUpload"
          \/ /\ status = "uploading" /\ status' = "deleted"
             /\ req[r].kind = "abort" /\ req'[r].resp = "204"]_vars

\* A completion succeeded after keep-alive units, its two deletions of the
\* record failed and the session is completed.
C8_Witness ==
    \E r \in Slots :
        /\ req[r].kind = "complete" /\ req[r].pc = "done"
        /\ req[r].resp = "stream" /\ Len(req[r].out) >= 2
        /\ LastUnit(req[r]) = "Result" /\ req[r].dels = 2
        /\ status = "completed"

\* The sizes of the stored parts.
StoredSize == [n \in PartNums |-> parts[n].size]

\* C9: when a completion has combined its parts and is about to report
\* success, every used part has as object offset the sum of the sizes of
\* the used parts of lower part number, and the object's size is the sum of
\* the sizes of all used parts.
C9_Offsets ==
    \A r \in Slots :
        (req[r].kind = "complete" /\ req[r].pc = "c_delete")
        => LET U == SeqToSet(req[r].used)
           IN  /\ \A n \in U :
                     parts[n].obj_offset =
                         SumSizes({m \in U : m < n}, StoredSize)
               /\ obj.si = SumSizes(U, StoredSize)

\* A completion of three parts is about to report success.
C9_Witness ==
    \E r \in Slots :
        /\ req[r].kind = "complete" /\ req[r].pc = "c_delete"
        /\ Len(req[r].used) >= 3
        /\ parts[3].obj_offset = parts[1].size + parts[2].size
        /\ parts[1].size # parts[2].size

\* The highest requested part number.
HighestRequested == 
    CHOOSE m \in SeqToSet(vin.complete_numbers) :
        \A k \in SeqToSet(vin.complete_numbers) : k <= m

\* The i-th part record returned by the store is requested, is not the
\* highest requested one and is below the minimum size.
SmallNonHighest(i) ==
    /\ InSeq(vin.qs[i].part_num, vin.complete_numbers)
    /\ vin.qs[i].part_num # HighestRequested
    /\ vin.qs[i].size < MULTIPART_UPLOAD_MIN_SIZE

\* The i-th part record returned by the store is requested with a missing
\* or mismatching hash.
BadHash(i) ==
    /\ InSeq(vin.qs[i].part_num, vin.complete_numbers)
    /\ LET c == vin.complete_parts[vin.qs[i].part_num]
       IN  \/ "ETag" \notin DOMAIN c
           \/ Strip(c.ETag, Quote) # vin.qs[i].part_md5

\* C10 as stated: validation fails with "entity too small" exactly when
\* some used part other than the highest requested one is below the minimum
\* size.
C10_TooSmallIff ==
    vout.done =>
        (vout.err = "EntityTooSmall"
            <=> \E i \in 1..Len(vin.qs) : SmallNonHighest(i))

\* C10: validation fails with "entity too small" exactly when some used part
\* other than the highest requested one is below the minimum size and no
\* used part that the store returns before it has a missing or mismatching
\* hash; the highest requested part may have any size.
C10_TooSmallIffFirstFailure ==
    vout.done =>
        (vout.err = "EntityTooSmall"
            <=> \E i \in 1..Len(vin.qs) :
                    /\ SmallNonHighest(i)
                    /\ \A j \in 1..(i - 1) : ~BadHash(j))

\* Parts 1 (4 MiB) and 2 (1 KiB) requested with their hashes: too small.
C10_Witness ==
    /\ vout.done /\ vout.err = "EntityTooSmall"
    /\ vin.complete_numbers = <<1, 2>>
    /\ Len(vin.qs) = 2
    /\ \E i, j \in 1..2 :
          /\ vin.qs[i].part_num = 1 /\ vin.qs[i].size = 4194304
          /\ vin.qs[j].part_num = 2 /\ vin.qs[j].size = 1024
    /\ \A i \in 1..2 : ~BadHash(i)

\* The stored hash of part n among the rows handed to the validation.
StoredMd5(n) ==
    vin.qs[CHOOSE i \in 1..Len(vin.qs) : vin.qs[i].part_num = n].part_md5

\* The stored hashes of the parts nums, concatenated in the order of nums.
RECURSIVE DigestsOf(_)
DigestsOf(nums) ==
    IF nums = <<>> THEN <<>>
    ELSE StoredMd5(Head(nums)) \o DigestsOf(Tail(nums))

\* C11: when validation succeeds, the aggregate object hash is the hash of
\* the used parts' stored hashes concatenated by ascending part number, with
\* the number of used parts as suffix, quoted, whatever the order in which
\* the store returned the part records.
C11_AggregateHashAscending ==
    (vout.done /\ vout.err = "none")
    => vout.obj_etag = [quoted |-> TRUE,
                        hex_md5 |-> DigestsOf(vin.complete_numbers),
                        parts_count |-> Len(vin.complete_numbers)]

(***************************************************************************)
(* SigV4 authenticator (src/s3api/auth.py, class S3V4Authentication).      *)
(* A string is the sequence of its characters.                             *)
(***************************************************************************)
\* ord(c) of the characters the inputs are made of.
Ord(c) ==
    CASE c = "\n" -> 10 [] c = " " -> 32 [] c = "%" -> 37 [] c = "&" -> 38
      [] c = "," -> 44 [] c = "-" -> 45 [] c = "/" -> 47 [] c = "0" -> 48
      [] c = "1" -> 49 [] c = "2" -> 50 [] c = "3" -> 51 [] c = "4" -> 52
      [] c = "5" -> 53 [] c = "6" -> 54 [] c = ":" -> 58 [] c = ";" -> 59
      [] c = "=" -> 61 [] c = "A" -> 65 [] c = "B" -> 66 [] c = "C" -> 67
      [] c = "D" -> 68 [] c = "H" -> 72 [] c = "M" -> 77 [] c = "S" -> 83
      [] c = "T" -> 84 [] c = "W" -> 87 [] c = "X" -> 88 [] c = "Z" -> 90
      [] c = "a" -> 97 [] c = "b" -> 98 [] c = "e" -> 101 [] c = "g" -> 103
      [] c = "h" -> 104 [] c = "i" -> 105 [] c = "l" -> 108 [] c = "m" -> 109
      [] c = "o" -> 111 [] c = "r" -> 114 [] c = "t" -> 116 [] c = "x" -> 120
      [] c = "z" -> 122

\* s < t for Python strings: by code point, a proper prefix first.
RECURSIVE StrLess(_, _)
StrLess(s, t) ==
    IF t = <<>> THEN FALSE
    ELSE IF s = <<>> THEN TRUE
    ELSE IF Head(s) = Head(t) THEN StrLess(Tail(s), Tail(t))
    ELSE Ord(Head(s)) < Ord(Head(t))

\* sorted(names): the names in arrival order, sorted ascending.
RECURSIVE sorted(_)
sorted(names) ==
    IF names = <<>> THEN <<>>
    ELSE LET i == CHOOSE k \in 1..Len(names) :
                    \A j \in 1..Len(names) : ~StrLess(names[j], names[k])
         IN  <<names[i]>> \o
             sorted([j \in 1..(Len(names) - 1) |->
                        IF j < i THEN names[j] ELSE names[j + 1]])

\* The "%XX" escape of a character that urllib's quote does not leave alone.
PercentEncoded(c) ==
    CASE c = " " -> <<"%", "2", "0">>
      [] c = "%" -> <<"%", "2", "5">>
      [] c = "&" -> <<"%", "2", "6">>
      [] c = "/" -> <<"%", "2", "F">>
      [] c = "=" -> <<"%", "3", "D">>
      [] OTHER -> <<"%", "0", "0">>

\* Letters, digits and "_.-~" are never quoted.
AlwaysSafe ==
    {"a", "b", "e", "g", "h", "i", "l", "m", "o", "r", "t", "x", "z",
     "A", "B", "C", "D", "H", "M", "S", "T", "W", "X", "Z",
     "0", "1", "2", "3", "4", "5", "6", "-"}

\* urllib.parse.quote(s, safe).
RECURSIVE quote(_, _)
quote(s, safe) ==
    IF s = <<>> THEN <<>>
    ELSE (IF Head(s) \in AlwaysSafe \cup safe
          THEN <<Head(s)>> ELSE PercentEncoded(Head(s)))
         \o quote(Tail(s), safe)

\* sep.join(items).
RECURSIVE join(_, _)
join(sep, items) ==
    IF items = <<>> THEN <<>>
    ELSE IF Len(items) = 1 THEN items[1]
    ELSE items[1] \o sep \o join(sep, Tail(items))

\* request.query_params as a sequence of [name, value] in arrival order,
\* the names distinct; params[name].
ParamValue(params, name) ==
    params[CHOOSE i \in 1..Len(params) : params[i].name = name].value

ParamNames(params) == [i \in 1..Len(params) |-> params[i].name]

\* The "for name in names" of a canonical_query_string that does not sort.
QueryOrder_Arrival(names) == names

\* "for name in sorted(names)".
QueryOrder(names) == sorted(names)

canonical_query_string(params) ==
    LET names == QueryOrder(ParamNames(params))
        l == [i \in 1..Len(names) |->
                 quote(names[i], {"-"}) \o <<"=">>
                     \o quote(ParamValue(params, names[i]), {"-"})]
    IN  join(<<"&">>, l)

(***************************************************************************)
(* The canonical query string on its own.                                  *)
(***************************************************************************)
\* Parameter names and values: upper and lower case, a name that is a
\* prefix of another, a value of reserved characters.
QueryNames == {<<"a">>, <<"b">>, <<"a", "b">>, <<"B">>}

QueryValues == {<<"1">>, <<"2">>, <<"&", "=">>}

\* Every query: any of the names, in any arrival order, with any values.
Queries ==
    UNION {{[i \in 1..Len(ns) |-> [name |-> ns[i], value |-> v[ns[i]]]] :
               ns \in Orderings(S), v \in [S -> QueryValues]} :
           S \in SUBSET QueryNames}

InitQuery ==
    /\ status = "uploading"
    /\ parts = [n \in PartNums |-> NoPart(n)]
    /\ obj = NoObject
    /\ req = [r \in Slots |-> IdleReq]
    /\ \E ps \in Queries : vin = [params |-> ps]
    /\ vout = [done |-> FALSE, cqs |-> <<>>]

CanonicalQuery ==
    /\ ~vout.done
    /\ vout' = [done |-> TRUE, cqs |-> canonical_query_string(vin.params)]
    /\ UNCHANGED <<status, parts, obj, req, vin>>

NextQuery == CanonicalQuery

SpecQuery == InitQuery /\ [][NextQuery]_vars

\* The parameters of the query, without their arrival order.
ParamSet == {vin.params[i] : i \in 1..Len(vin.params)}

\* C14: the canonical query string is the "&"-joined list of one
\* name=value item (name and value percent-encoded) per query parameter, the
\* items ordered by ascending parameter name, whatever the arrival order of
\* the parameters; no parameter gives the empty string.
C14_CanonicalQuery ==
    vout.done =>
        \E o \in Orderings(ParamSet) :
            /\ \A i \in 1..(Len(o) - 1) : StrLess(o[i].name, o[i + 1].name)
            /\ vout.cqs =
                   join(<<"&">>,
                        [i \in 1..Len(o) |->
                            quote(o[i].name, {"-"}) \o <<"=">>
                                \o quote(o[i].value, {"-"})])
            /\ (ParamSet = {} => vout.cqs = <<>>)

\* {b: "2", a: "1"}, b arriving first, gave a=1&b=2.
C14_Witness ==
    /\ vout.done
    /\ vin.params = <<[name |-> <<"b">>, value |-> <<"2">>],
                      [name |-> <<"a">>, value |-> <<"1">>]>>
    /\ vout.cqs = <<"a", "=", "1", "&", "b", "=", "2">>

(***************************************************************************)
(* The signature.  A request is a record of its method, path, query         *)
(* parameters, headers (header name -> value or None) and payload-hash     *)
(* header; ctx holds the fields authenticate has set on the authenticator: *)
(* s3_timestamp and s3_credential.                                         *)
(***************************************************************************)
\* A header or parameter that is not there.
None == <<"None">>

\* str.upper() on the letters of the methods.
Upper(c) ==
    CASE c = "g" -> "G" [] c = "e" -> "E" [] c = "t" -> "T"
      [] c = "p" -> "P" [] c = "u" -> "U" [] OTHER -> c

upper(s) == [i \in 1..Len(s) |-> Upper(s[i])]

\* s.split(c): the pieces of s between the occurrences of c.
RECURSIVE split(_, _)
split(s, c) ==
    IF \A i \in 1..Len(s) : s[i] # c THEN <<s>>
    ELSE LET i == CHOOSE k \in 1..Len(s) :
                    s[k] = c /\ \A j \in 1..(k - 1) : s[j] # c
         IN  <<SubSeq(s, 1, i - 1)>> \o split(SubSeq(s, i + 1, Len(s)), c)

\* s.split(c, maxsplit=1).
split1(s, c) ==
    IF \A i \in 1..Len(s) : s[i] # c THEN <<s>>
    ELSE LET i == CHOOSE k \in 1..Len(s) :
                    s[k] = c /\ \A j \in 1..(k - 1) : s[j] # c
         IN  <<SubSeq(s, 1, i - 1), SubSeq(s, i + 1, Len(s))>>

\* value.split(): the words of value, without any white space.
Words(value) == SelectSeq(split(value, " "), LAMBDA w : w # <<>>)

\* A _header_value that leaves the value as it is.
header_value_Raw(value) == value

\* _header_value: ' '.join(value.split()).
header_value(value) == join(<<" ">>, Words(value))

\* The result of a function that raised an exception instead of returning.
Raise == <<"raise">>

\* canonical_headers; a signed header the request does not have raises
\* (None has no split).
canonical_headers(request, signed_headers) ==
    LET keys == split(signed_headers, ";")
    IN  IF \E i \in 1..Len(keys) :
               keys[i] \notin DOMAIN request.headers
                   \/ request.headers[keys[i]] = None
        THEN Raise
        ELSE join(<<"\n">>,
                  [i \in 1..Len(keys) |->
                      keys[i] \o <<":">> \o header_value(request.headers[keys[i]])])

canonical_request(request, signed_headers) ==
    IF canonical_headers(request, signed_headers) = Raise
           \/ request.body_checksum = None
    THEN Raise
    ELSE join(<<"\n">>,
              <<upper(request.method),
                quote(request.path, {"/"}),
                canonical_query_string(request.params),
                canonical_headers(request, signed_headers) \o <<"\n">>,
                signed_headers,
                request.body_checksum>>)

\* sha256(data).hexdigest(), the hash taken as injective: the digest of a
\* string is written as the string between brackets.
hexdigest(data) == <<"{">> \o data \o <<"}">>

\* self.s3_credential.split('/', maxsplit=1)[-1].
credential_scope(ctx) == Last(split1(ctx.s3_credential, "/"))

AWS4_HMAC_SHA256 == <<"AWS4-HMAC-SHA256">>

string_to_sign(ctx, canonical) ==
    join(<<"\n">>,
         <<AWS4_HMAC_SHA256, ctx.s3_timestamp, credential_scope(ctx),
           hexdigest(canonical)>>)

\* _sign: hmac.new(key, msg, sha256), taken as injective in key and message.
Sign(key, msg) == [key |-> key, msg |-> msg]

\* s[0:8].
Prefix8(s) == SubSeq(s, 1, IF Len(s) < 8 THEN Len(s) ELSE 8)

\* signature; region and service are the third and fourth field of the
\* credential (authenticate_credentials).
signature(ctx, string, secret_key) ==
    LET fields == split(ctx.s3_credential, "/")
        k_date == Sign(<<"AWS4">> \o secret_key, Prefix8(ctx.s3_timestamp))
        k_region == Sign(k_date, fields[3])
        k_service == Sign(k_region, fields[4])
        k_signing == Sign(k_service, <<"aws4_request">>)
    IN  Sign(k_signing, string)

\* generate_signature: the signature; every exception on the way is turned
\* into S3AuthorizationHeaderMalformed.
generate_signature(ctx, request, signed_headers, secret_key) ==
    IF signed_headers = None \/ canonical_request(request, signed_headers) = Raise
    THEN [raised |-> "AuthorizationHeaderMalformed"]
    ELSE [raised |-> "",
          ret |-> signature(ctx,
                            string_to_sign(ctx, canonical_request(request, signed_headers)),
                            secret_key)]

(***************************************************************************)
(* The authenticator.  The Authorization header is kept as its scheme and  *)
(* the comma-separated items after it; an item is its name, whether it has *)
(* an "=", and the value after it.  The Date header is kept as the instant *)
(* it names, in the SIGV4_TIMESTAMP form that strftime gives it.           *)
(***************************************************************************)
\* Well-formed SIGV4_TIMESTAMP strings: two instants of one day, one of the next.
T1 == <<"2", "0", "2", "0", "0", "1", "0", "1", "T", "0", "0", "0", "0", "0", "0", "Z">>
T2 == <<"2", "0", "2", "0", "0", "1", "0", "1", "T", "0", "0", "0", "0", "0", "1", "Z">>
T3 == <<"2", "0", "2", "0", "0", "1", "0", "2", "T", "0", "0", "0", "0", "0", "0", "Z">>

\* datetime.strptime(t, SIGV4_TIMESTAMP) succeeds.
strptime_ok(t) == t \in {T1, T2, T3}

\* The outcomes of a call: a returned value, or a raised exception.
Returned(v) == [raised |-> "", ret |-> v]
Raised(e) == [raised |-> e]

\* get_timestamp_from_header.
get_timestamp_from_header(request) ==
    IF request.date.present
    THEN IF request.date.valid THEN Returned(request.date.instant)
         ELSE Raised("ValueError")
    ELSE IF request.x_amz_date # None
    THEN IF strptime_ok(request.x_amz_date) THEN Returned(request.x_amz_date)
         ELSE Raised("ValueError")
    ELSE Returned(<<>>)

X_Amz_Date == <<"X", "-", "A", "m", "z", "-", "D", "a", "t", "e">>
X_Amz_Algorithm ==
    <<"X", "-", "A", "m", "z", "-", "A", "l", "g", "o", "r", "i", "t", "h", "m">>
Algorithm ==
    <<"A", "W", "S", "4", "-", "H", "M", "A", "C", "-", "S", "H", "A", "2", "5", "6">>

\* request.query_params.get(name, None).
QueryGet(request, name) ==
    IF \E i \in 1..Len(request.params) : request.params[i].name = name
    THEN ParamValue(request.params, name)
    ELSE None

\* get_timestamp_from_query.
get_timestamp_from_query(request) ==
    IF QueryGet(request, X_Amz_Date) = None THEN Returned(<<>>)
    ELSE IF strptime_ok(QueryGet(request, X_Amz_Date))
    THEN Returned(QueryGet(request, X_Amz_Date))
    ELSE Raised("ValueError")

AuthNames == {"Credential", "SignedHeaders", "Signature"}

\* ret[name] after the loop of parse_auth_key_string: the value of the last
\* item of that name; has is the set of the names that got a value.
LastItem(items, name) ==
    items[CHOOSE i \in 1..Len(items) :
              items[i].name = name
                  /\ \A j \in (i + 1)..Len(items) : items[j].name # name]

\* parse_auth_key_string: the first item without "=" fails the unpacking,
\* the first item of another name is refused.
parse_auth_key_string(items) ==
    IF Len(items) # 3 THEN Raised("AuthorizationHeaderMalformed")
    ELSE IF \E i \in 1..3 : ~items[i].eq \/ items[i].name \notin AuthNames
    THEN LET i == CHOOSE k \in 1..3 :
                    (~items[k].eq \/ items[k].name \notin AuthNames)
                        /\ \A j \in 1..(k - 1) :
                               items[j].eq /\ items[j].name \in AuthNames
         IN  IF ~items[i].eq THEN Raised("ValueError")
             ELSE Raised("AuthorizationHeaderMalformed")
    ELSE Returned([n \in {items[i].name : i \in 1..3} |-> LastItem(items, n).val])

\* str.lower() of a scheme.
Lower(scheme) ==
    CASE scheme = "AWS4-HMAC-SHA256" -> "aws4-hmac-sha256"
      [] scheme = "Bearer" -> "bearer"
      [] OTHER -> scheme

keyword == "AWS4-HMAC-SHA256"

\* get_credentials_from_header: the credentials (ret) and self.s3_timestamp;
\* isNone says that None was returned.
get_credentials_from_header(request) ==
    IF ~request.authorization.present
           \/ Lower(request.authorization.scheme) # Lower(keyword)
    THEN [raised |-> "", isNone |-> TRUE]
    ELSE IF request.authorization.bare
    THEN Raised("AuthorizationHeaderMalformed")
    ELSE IF get_timestamp_from_header(request).raised # ""
    THEN get_timestamp_from_header(request)
    ELSE IF parse_auth_key_string(request.authorization.items).raised # ""
    THEN parse_auth_key_string(request.authorization.items)
    ELSE [raised |-> "", isNone |-> FALSE,
          ret |-> parse_auth_key_string(request.authorization.items).ret,
          s3_timestamp |-> get_timestamp_from_header(request).ret]

\* The AuthKey table: the key a is usable, the user of b is inactive, the key
\* h is inactive, no other key exists.
KeyIds == {<<"a">>, <<"b">>, <<"h">>}

AuthKeys ==
    [k \in KeyIds |->
        [user |-> [name |-> k, is_active |-> k # <<"b">>],
         is_key_active |-> k # <<"h">>,
         secret_key |-> <<"5">>]]

\* A lookup that does not ask whether the key is active.
LookupFails_NoKeyCheck(access_key) ==
    IF access_key \notin KeyIds THEN TRUE
    ELSE ~AuthKeys[access_key].user.is_active

\* The three tests of the lookup: the key does not exist, its user is not
\* active, the key is not active.
LookupFails(access_key) ==
    IF access_key \notin KeyIds THEN TRUE
    ELSE IF ~AuthKeys[access_key].user.is_active THEN TRUE
    ELSE ~AuthKeys[access_key].is_key_active

Principal(access_key) ==
    [raised |-> "", kind |-> "principal",
     user |-> AuthKeys[access_key].user.name, auth |-> access_key]

NoPrincipal == [raised |-> "", kind |-> "none"]

\* credentials.get(name): the value, or None.
CredGet(ret, name) == IF name \in DOMAIN ret THEN ret[name] ELSE None

\* authenticate_credentials; credentials is the dictionary of the header
\* (isDict), or a string, which has no get.
authenticate_credentials(request, credentials, s3_timestamp) ==
    IF ~credentials.isDict THEN Raised("AttributeError")
    ELSE IF "Credential" \notin DOMAIN credentials.ret THEN Raised("AttributeError")
    ELSE LET credential == credentials.ret["Credential"]
             signed_headers == CredGet(credentials.ret, "SignedHeaders")
             fields == split(credential, "/")
             ctx == [s3_timestamp |-> s3_timestamp, s3_credential |-> credential]
             sig == generate_signature(ctx, request, signed_headers,
                                       AuthKeys[fields[1]].secret_key)
         IN  IF Len(fields) # 5 THEN Raised("ValueError")
             ELSE IF LookupFails(fields[1]) THEN Raised("InvalidAccessKeyId")
             ELSE IF sig.raised # "" THEN Raised("AuthorizationHeaderMalformed")
             ELSE IF "Signature" \notin DOMAIN credentials.ret
             THEN Raised("AuthorizationHeaderMalformed")
             ELSE IF sig.ret # credentials.ret["Signature"]
             THEN Raised("AuthorizationHeaderMalformed")
             ELSE Principal(fields[1])

\* authenticate.  The second source of credentials is
\* get_timestamp_from_query, which returns a string and never None.
authenticate(request) ==
    LET header == get_credentials_from_header(request)
        query == get_timestamp_from_query(request)
    IN  IF header.raised # "" THEN Raised(header.raised)
        ELSE IF ~header.isNone
        THEN authenticate_credentials(request, [isDict |-> TRUE, ret |-> header.ret],
                                      header.s3_timestamp)
        ELSE IF query.raised # "" THEN Raised(query.raised)
        ELSE IF query.ret = None THEN NoPrincipal
        ELSE authenticate_credentials(request, [isDict |-> FALSE], <<>>)

\* The status code of the S3 errors; any other exception is no S3 error.
status_code(raised) ==
    CASE raised = "InvalidAccessKeyId" -> 403
      [] raised = "AuthorizationHeaderMalformed" -> 400
      [] OTHER -> 0

(***************************************************************************)
(* Requests to authenticate.                                               *)
(***************************************************************************)
\* access key/date/region/service/terminator, or without the terminator.
ClientCredential(access_key, arity) ==
    access_key \o <<"/", "2", "0", "2", "0", "0", "1", "0", "1", "/", "x", "/", "3">>
        \o (IF arity = 5 THEN <<"/", "r">> ELSE <<>>)

\* The request before its Authorization header is set.
UnsignedRequest(params, h, body_checksum, date, x_amz_date) ==
    [method |-> <<"G", "E", "T">>,
     path |-> <<"/", "a">>,
     params |-> params,
     headers |-> [n \in {<<"h">>} |-> h],
     body_checksum |-> body_checksum,
     date |-> date,
     x_amz_date |-> x_amz_date,
     authorization |-> [present |-> FALSE, scheme |-> "", bare |-> TRUE, items |-> <<>>]]

\* The signature a client that holds secret_key puts into the header: the
\* signature of the request as sent.
ClientSignature(request, credential, signed_headers, secret_key) ==
    LET t == get_timestamp_from_header(request)
        ctx == [s3_timestamp |-> IF t.raised = "" THEN t.ret ELSE <<>>,
                s3_credential |-> credential]
        canonical == canonical_request(request, signed_headers)
    IN  signature(ctx,
                  IF canonical = Raise THEN <<>> ELSE string_to_sign(ctx, canonical),
                  secret_key)

Item(name, val) == [name |-> name, eq |-> TRUE, val |-> val]

\* The forms of the Authorization header: absent, of another scheme, the
\* keyword alone, the three items (keyword in upper or lower case), two
\* items, an item of another name, an item without "=", a repeated item
\* in the place of Signature or of Credential.
Authorization(form, credential, sig) ==
    LET c == Item("Credential", credential)
        h == Item("SignedHeaders", <<"h">>)
        g == Item("Signature", sig)
        items == CASE form = "two" -> <<c, g>>
                   [] form = "name" -> <<c, Item("Expires", <<"1">>), g>>
                   [] form = "noeq" -> <<c, [h EXCEPT !.eq = FALSE], g>>
                   [] form = "nosig" -> <<c, h, c>>
                   [] form = "nocred" -> <<h, h, g>>
                   [] OTHER -> <<c, h, g>>
    IN  [present |-> form # "absent",
         scheme |-> CASE form = "absent" -> ""
                      [] form = "other" -> "Bearer"
                      [] form = "lower" -> "aws4-hmac-sha256"
                      [] OTHER -> "AWS4-HMAC-SHA256",
         bare |-> form \in {"absent", "bare"},
         items |-> IF form \in {"absent", "bare"} THEN <<>> ELSE items]

AuthRequest(form, access_key, arity, secret_key, params, h, sha, date, amz) ==
    LET request == UnsignedRequest(params, h, sha, date, amz)
        credential == ClientCredential(access_key, arity)
    IN  [request EXCEPT
            !.authorization =
                Authorization(form, credential,
                              ClientSignature(request, credential, <<"h">>, secret_key))]

\* What a client may send: the forms of the Authorization header; the keys
\* of the table and the key x, which is not in it; the secret of every key
\* of the table, and another one; the Date header absent, well-formed, not
\* in GMT_FORMAT; the X-Amz-Date header absent, well-formed, malformed; the
\* query parameters.
AuthValues ==
    [form |-> {"absent", "other", "bare", "good", "lower", "two", "name", "noeq",
               "nosig", "nocred"},
     access_key |-> KeyIds \cup {<<"x">>},
     secret_key |-> {<<"5">>, <<"6">>},
     date |-> {[present |-> FALSE, valid |-> FALSE, instant |-> <<>>],
               [present |-> TRUE, valid |-> TRUE, instant |-> T1],
               [present |-> TRUE, valid |-> FALSE, instant |-> <<>>]},
     x_amz_date |-> {None, T2, <<"x">>},
     params |-> {<<>>,
                 <<[name |-> X_Amz_Date, value |-> T2]>>,
                 <<[name |-> X_Amz_Date, value |-> <<"x">>]>>,
                 <<[name |-> X_Amz_Algorithm, value |-> Algorithm]>>,
                 <<[name |-> X_Amz_Date, value |-> T2],
                   [name |-> X_Amz_Algorithm, value |-> Algorithm]>>}]

InitAuth ==
    /\ status = "uploading"
    /\ parts = [n \in PartNums |-> NoPart(n)]
    /\ obj = NoObject
    /\ req = [r \in Slots |-> IdleReq]
    /\ \E form \in AuthValues.form, access_key \in AuthValues.access_key,
          arity \in {4, 5}, secret_key \in AuthValues.secret_key,
          params \in AuthValues.params, h \in {<<"1">>, None},
          sha \in {<<"6">>, None}, date \in AuthValues.date,
          amz \in AuthValues.x_amz_date :
           vin = [request |-> AuthRequest(form, access_key, arity, secret_key, params,
                                          h, sha, date, amz)]
    /\ vout = [done |-> FALSE, result |-> NoPrincipal]

Authenticate ==
    /\ ~vout.done
    /\ vout' = [done |-> TRUE, result |-> authenticate(vin.request)]
    /\ UNCHANGED <<status, parts, obj, req, vin>>

NextAuth == Authenticate

SpecAuth == InitAuth /\ [][NextAuth]_vars

\* The request has an Authorization header of the scheme whose three items
\* parse, a readable date, and a Credential of five fields.
HasCredential(request) ==
    /\ get_credentials_from_header(request).raised = ""
    /\ ~get_credentials_from_header(request).isNone
    /\ "Credential" \in DOMAIN get_credentials_from_header(request).ret
    /\ Len(split(get_credentials_from_header(request).ret["Credential"], "/")) = 5

\* The access key the Credential names.
NamedKey(request) ==
    split(get_credentials_from_header(request).ret["Credential"], "/")[1]

\* The key is unknown, or its user is inactive, or the key is inactive.
Unusable(access_key) ==
    \/ access_key \notin DOMAIN AuthKeys
    \/ ~AuthKeys[access_key].user.is_active
    \/ ~AuthKeys[access_key].is_key_active

\* C12: a request whose credential names an unknown access key, a key of an
\* inactive user or an inactive key is refused with InvalidAccessKeyId (403)
\* and gets no principal, whether its signature is the right one or not.
C12_UnusableKeyRefused ==
    (vout.done /\ HasCredential(vin.request) /\ Unusable(NamedKey(vin.request)))
        => /\ vout.result.raised = "InvalidAccessKeyId"
           /\ status_code(vout.result.raised) = 403

\* The inactive key h with the three items, every signed header there and
\* the signature made with the secret of h, was refused.
C12_Witness ==
    /\ vout.done
    /\ HasCredential(vin.request)
    /\ NamedKey(vin.request) = <<"h">>
    /\ DOMAIN get_credentials_from_header(vin.request).ret = AuthNames
    /\ vin.request.headers[<<"h">>] # None
    /\ vin.request.body_checksum # None
    /\ get_credentials_from_header(vin.request).ret["Signature"]
           = ClientSignature(vin.request, ClientCredential(<<"h">>, 5), <<"h">>,
                             AuthKeys[<<"h">>].secret_key)
    /\ vout.result.raised = "InvalidAccessKeyId"

\* The request has an Authorization header of the expected scheme.
HasSchemeHeader(request) ==
    /\ request.authorization.present
    /\ request.authorization.scheme \in {"AWS4-HMAC-SHA256", "aws4-hmac-sha256"}

\* The request has an algorithm query parameter.
HasAlgorithmParameter(request) ==
    \E i \in 1..Len(request.params) : request.params[i].name = X_Amz_Algorithm

\* C15: authenticate ends with a principal and its key, with none, or with
\* an authentication error, and a request with neither an Authorization
\* header of the scheme nor an algorithm query parameter ends with none.
C15_AuthenticateOutcomes ==
    vout.done =>
        /\ \/ vout.result.raised \in {"InvalidAccessKeyId", "AuthorizationHeaderMalformed"}
           \/ vout.result.raised = "" /\ vout.result.kind \in {"principal", "none"}
        /\ (~HasSchemeHeader(vin.request) /\ ~HasAlgorithmParameter(vin.request))
               => vout.result = NoPrincipal

(***************************************************************************)
(* Two computations of the signature: of a request x, and of a request y   *)
(* that is x or differs from x in one field.                               *)
(***************************************************************************)
\* The values of each field of a signing input: two methods, two paths;
\* one parameter, and two parameters in both arrival orders; for the header
\* h one word, two words, two words further apart; two signed-header
\* lists; three timestamps; the keys a and b, which have the same secret;
\* two dates of the credential scope.
SignValues ==
    [method |-> {<<"G", "E", "T">>, <<"P", "U", "T">>},
     path |-> {<<"/", "a">>, <<"/", "b">>},
     params |->
         {<<[name |-> <<"a">>, value |-> <<"1">>]>>,
          <<[name |-> <<"a">>, value |-> <<"1">>], [name |-> <<"b">>, value |-> <<"2">>]>>,
          <<[name |-> <<"b">>, value |-> <<"2">>], [name |-> <<"a">>, value |-> <<"1">>]>>},
     h |-> {<<"1">>, <<"1", " ", "2">>, <<"1", " ", " ", "2">>},
     x |-> {<<"1">>, <<"2">>},
     signed_headers |-> {<<"h">>, <<"h", ";", "x">>},
     body_checksum |-> {<<"5">>, <<"6">>},
     s3_timestamp |-> {T1, T2, T3},
     access_key |-> {<<"a">>, <<"b">>},
     date |-> {<<"2", "0", "2", "0", "0", "1", "0", "1">>,
               <<"2", "0", "2", "0", "0", "1", "0", "2">>}]

SignInputs ==
    [method : SignValues.method, path : SignValues.path, params : SignValues.params,
     h : SignValues.h, x : SignValues.x, signed_headers : SignValues.signed_headers,
     body_checksum : SignValues.body_checksum, s3_timestamp : SignValues.s3_timestamp,
     access_key : SignValues.access_key, date : SignValues.date]

\* i, and i with one field changed.
Variants(i) ==
    {i} \cup {[i EXCEPT !.method = v] : v \in SignValues.method}
        \cup {[i EXCEPT !.path = v] : v \in SignValues.path}
        \cup {[i EXCEPT !.params = v] : v \in SignValues.params}
        \cup {[i EXCEPT !.h = v] : v \in SignValues.h}
        \cup {[i EXCEPT !.x = v] : v \in SignValues.x}
        \cup {[i EXCEPT !.signed_headers = v] : v \in SignValues.signed_headers}
        \cup {[i EXCEPT !.body_checksum = v] : v \in SignValues.body_checksum}
        \cup {[i EXCEPT !.s3_timestamp = v] : v \in SignValues.s3_timestamp}
        \cup {[i EXCEPT !.access_key = v] : v \in SignValues.access_key}
        \cup {[i EXCEPT !.date = v] : v \in SignValues.date}

\* The request of an input, and the fields authenticate_credentials has set.
SignRequest(i) ==
    [method |-> i.method, path |-> i.path, params |-> i.params,
     headers |-> (<<"h">> :> i.h) @@ (<<"x">> :> i.x),
     body_checksum |-> i.body_checksum]

SignContext(i) ==
    [s3_timestamp |-> i.s3_timestamp,
     s3_credential |-> i.access_key \o <<"/">> \o i.date \o <<"/", "x", "/", "3", "/", "r">>]

SignatureOf(i) ==
    generate_signature(SignContext(i), SignRequest(i), i.signed_headers,
                       AuthKeys[i.access_key].secret_key)

InitSign ==
    /\ status = "uploading"
    /\ parts = [n \in PartNums |-> NoPart(n)]
    /\ obj = NoObject
    /\ req = [r \in Slots |-> IdleReq]
    /\ \E x \in SignInputs : \E y \in Variants(x) : vin = [x |-> x, y |-> y]
    /\ vout = [done |-> FALSE]

SignBoth ==
    /\ ~vout.done
    /\ vout' = [done |-> TRUE, sx |-> SignatureOf(vin.x), sy |-> SignatureOf(vin.y)]
    /\ UNCHANGED <<status, parts, obj, req, vin>>

NextSign == SignBoth

SpecSign == InitSign /\ [][NextSign]_vars

\* The names a signed-headers list names.
SignedNames(i) == SeqToSet(split(i.signed_headers, ";"))

HeaderOf(i, name) == IF name = <<"h">> THEN i.h ELSE i.x

\* The components of a request as sent: method, path, query set, signed
\* headers with their values, payload hash, timestamp, credential scope.
Components(i) ==
    [method |-> i.method, path |-> i.path, query |-> SeqToSet(i.params),
     signed |-> i.signed_headers,
     values |-> [n \in SignedNames(i) |-> HeaderOf(i, n)],
     payload |-> i.body_checksum, timestamp |-> i.s3_timestamp, scope |-> i.date]

\* The same, the value of a signed header taken as its sequence of words.
CanonicalComponents(i) ==
    [Components(i) EXCEPT !.values = [n \in SignedNames(i) |-> Words(HeaderOf(i, n))]]

\* C13: two computations of the signature under one secret key agree when
\* the requests agree in method, path, query set, signed headers, payload
\* hash, timestamp and credential scope, and differ when the requests differ
\* in one of these components.
C13_SignatureOfComponents ==
    vout.done =>
        /\ vout.sx.raised = "" /\ vout.sy.raised = ""
        /\ (Components(vin.x) = Components(vin.y)) <=> (vout.sx.ret = vout.sy.ret)

\* C13, amended: as above, the value of a signed header compared without
\* regard to its leading, trailing and repeated white space.
C13_SignatureOfCanonicalComponents ==
    vout.done =>
        /\ vout.sx.raised = "" /\ vout.sy.raised = ""
        /\ (CanonicalComponents(vin.x) = CanonicalComponents(vin.y))
               <=> (vout.sx.ret = vout.sy.ret)

\* Two requests that differ in their payload hash only got two signatures.
C13_Witness ==
    /\ vout.done
    /\ vin.x.body_checksum # vin.y.body_checksum
    /\ vin.y = [vin.x EXCEPT !.body_checksum = vin.y.body_checksum]
    /\ vout.sx.ret # vout.sy.ret

(***************************************************************************)
(* Properties of the completion and of the abort, continued.               *)
(***************************************************************************)
\* C16: when no completion request is in flight the session is not in
\* composing: a completion that took the session into composing leaves
\* it uploading, completed or deleted, however it ends.
C16_ComposingOnlyInFlight ==
    (\A r \in Slots : ~(Running(r) /\ req[r].kind = "complete"))
        => status # "composing"

(***************************************************************************)
(* The first request of a session whose destination key holds an object.   *)
(***************************************************************************)
InitFirst ==
    /\ status = "uploading"
    /\ parts \in {[n \in PartNums |-> NewPart(n, sz[n])] : sz \in SeqSizes}
    /\ obj = OldObject
    /\ req = [r \in Slots |-> IdleReq]
    /\ vin = NoInput
    /\ vout = NoOutput

\* The session has had no request yet.
FirstComplete ==
    /\ req["r1"].pc = "idle"
    /\ LoadComplete("r1", SeqRequests)

FirstAbort ==
    /\ req["r1"].pc = "idle"
    /\ LoadAbort("r1")

NextFirst ==
    \/ FirstComplete
    \/ FirstAbort
    \/ CGate("r1")
    \/ CPrepare("r1")
    \/ CValidate("r1")
    \/ CBlock("r1", Durations)
    \/ CSave("r1")
    \/ CMeta("r1")
    \/ CUnused("r1", Durations)
    \/ CUsed("r1", Durations)
    \/ CDelete("r1")
    \/ AGate("r1")
    \/ APass("r1")
    \/ ADecide1("r1")
    \/ ADecide2("r1")
    \/ ADelete("r1")

SpecFirst == InitFirst /\ [][NextFirst]_vars

\* The errors get_upload_parts_and_validate raises.
ValidationErrors == {"EntityTooSmall", "InvalidPart"}

\* C17: a completion whose validation fails leaves the destination object
\* as it was: the object that held bytes is not reset and nothing is written.
C17_ValidationFailureLeavesObject ==
    (req["r1"].pc = "done" /\ req["r1"].kind = "complete"
         /\ req["r1"].resp \in ValidationErrors)
        => obj = OldObject

\* C18: in an abort whose first cleanup pass left at most half of the parts
\* failed, the second pass over the failed parts is followed by the
\* deletion of the session record, whatever the second pass reports; the
\* second pass does not end the abort with an internal error.
C18_RetryPassContinues ==
    [][\A r \in Slots :
          (req[r].pc = "a_pass2" /\ req[r].idx > Len(req[r].todo) /\ StepOf(r))
              => req'[r].pc = "a_delete"]_vars

\* C19: the abort of a session in uploading, its parts cleaned, deletes the
\* session record with one retry: it answers 204 when the record is
\* deleted and internal error only after two failed deletions.
C19_AbortDeletesWithRetry ==
    [][\A r \in Slots :
          (req[r].pc = "a_delete" /\ StepOf(r))
              => \/ req'[r].resp = "204" /\ status' = "deleted"
                 \/ req'[r].resp = "InternalError" /\ req'[r].dels = 2]_vars

\* C20: the last step of a completion that has combined and cleaned up
\* deletes the session record in one or two attempts; the record is then
\* deleted, or completed after two failed attempts, never composing or
\* uploading, and the stream ends with the result payload.
C20_FinishAfterCleanup ==
    [][\A r \in Slots :
          (req[r].pc = "c_delete" /\ StepOf(r))
              => /\ req'[r].dels \in {1, 2}
                 /\ \/ status' = "deleted"
                    \/ status' = "completed" /\ req'[r].dels = 2
                 /\ req'[r].pc = "done" /\ req'[r].resp = "stream"
                 /\ LastUnit(req'[r]) = "Result"]_vars

\* A completion whose first deletion of the record failed and whose second
\* succeeded has ended with the result payload.
C20_Witness ==
    \E r \in Slots :
        /\ req[r].kind = "complete" /\ req[r].pc = "done"
        /\ req[r].resp = "stream" /\ LastUnit(req[r]) = "Result"
        /\ req[r].dels = 2
        /\ status = "deleted"

(***************************************************************************)
(* C21: the cleanup of a completion touches the part it is at and no       *)
(* other: the part record is deleted only in the pass over the unused      *)
(* parts, byte storage in both passes; each pass goes through its whole    *)
(* list, one part a step, and when the cleanup is over every used part     *)
(* still has its part record.                                              *)
(***************************************************************************)
C21_CleanupScope ==
    [][\A r \in Slots :
          (req[r].kind = "complete" /\ StepOf(r))
              => /\ \A n \in PartNums :
                      /\ parts'[n].meta # parts[n].meta
                            => /\ req[r].pc = "c_unused"
                               /\ n = req[r].todo[req[r].idx]
                               /\ InSeq(n, req[r].unused)
                      /\ parts'[n].data # parts[n].data
                            => /\ req[r].pc \in {"c_unused", "c_used"}
                               /\ n = req[r].todo[req[r].idx]
                 /\ req[r].pc = "c_unused" => req[r].todo = req[r].unused
                 /\ req[r].pc = "c_used" => req[r].todo = req[r].used
                 /\ (req[r].pc \in {"c_unused", "c_used"} /\ req'[r].pc = req[r].pc)
                       => req'[r].idx = req[r].idx + 1
                 /\ (req[r].pc \in {"c_unused", "c_used"}
                        /\ req'[r].pc \in {"c_used", "c_delete"}
                        /\ req'[r].pc # req[r].pc)
                       => req[r].idx = Len(req[r].todo) + 1
                 /\ req[r].pc = "c_delete"
                       => \A n \in SeqToSet(req[r].used) : parts[n].meta]_vars

\* A completion ended in Result; an unused part lost record and bytes, a used
\* part lost its bytes and kept its record.
C21_Witness ==
    \E r \in Slots :
        /\ req[r].pc = "done" /\ req[r].kind = "complete"
        /\ req[r].resp = "stream" /\ LastUnit(req[r]) = "Result"
        /\ \E n \in PartNums :
              ~parts[n].meta /\ ~parts[n].data /\ parts[n].size > 0
        /\ \E n \in PartNums :
              parts[n].meta /\ ~parts[n].data /\ parts[n].obj_id = 1

(***************************************************************************)
(* C22: a completion deletes part records and byte storage only in its     *)
(* cleanup, which it enters with every used part combined and saved and    *)
(* the object's size updated; a completion that fails earlier leaves the   *)
(* parts as they were.                                                     *)
(***************************************************************************)
PartTouched(n) ==
    parts'[n].meta # parts[n].meta \/ parts'[n].data # parts[n].data

C22_CleanupAfterSuccess ==
    [][\A r \in Slots :
          (req[r].kind = "complete" /\ StepOf(r))
              => /\ (\E n \in PartNums : PartTouched(n))
                       => /\ req[r].pc \in {"c_unused", "c_used"}
                          /\ obj.si = req[r].offset
                          /\ \A n \in SeqToSet(req[r].used) : parts[n].obj_id = 1
                 /\ (req[r].pc \in {"c_part", "c_meta"} /\ req'[r].pc = "done")
                       => parts' = parts]_vars

\* A completion failed after combining a part; every part known to the
\* session still has its bytes.
C22_Witness ==
    \E r \in Slots :
        /\ req[r].pc = "done" /\ req[r].kind = "complete"
        /\ req[r].resp = "stream" /\ LastUnit(req[r]) = "Error"
        /\ status = "uploading"
        /\ \E n \in PartNums : parts[n].meta /\ parts[n].obj_id = 1
        /\ \A n \in PartNums : parts[n].meta => parts[n].data

(***************************************************************************)
(* The combine of one part, block by block: save_part_to_object_iter under *)
(* the loop of complete_iter that consumes it, up to update_obj_metedata.  *)
(* The record of the run keeps every write call with its offset and        *)
(* outcome, and the time that really passed since the last emitted unit    *)
(* (since), next to the two start_time clocks of the code.                 *)
(***************************************************************************)
\* Parts of one, two and three blocks, written at the start of the object or
\* behind an earlier part.
PartValues ==
    [size |-> {1024, ChunkSize + 1024, 2 * ChunkSize + 1024},
     offset |-> {0, 5242880}]

InitPart ==
    /\ status = "composing"
    /\ parts = [n \in PartNums |-> NoPart(n)]
    /\ obj = NoObject
    /\ req = [r \in Slots |-> IdleReq]
    /\ \E size \in PartValues.size, offset \in PartValues.offset :
           vin = [size |-> size, offset |-> offset]
    /\ vout = [pc |-> "write", blk |-> 0, offset |-> vin.offset,
               t_inner |-> 0, t_outer |-> 0, since |-> 0, gap |-> 0,
               calls |-> <<>>, out |-> <<>>, yielded_doctype |-> FALSE,
               meta_updated |-> FALSE]

\* The write calls of one block: a second one only after a failed first.
WriteCalls(offset, w1, w2) ==
    IF w1 THEN <<[offset |-> offset, ok |-> TRUE]>>
    ELSE <<[offset |-> offset, ok |-> FALSE], [offset |-> offset, ok |-> w2]>>

\* The time since the last emitted unit, after a boundary reached d seconds
\* later at which q1 is the run's next record.
Emitted(q, q1) == Len(q1.out) > Len(q.out)

Since(q, q1, d) ==
    [q1 EXCEPT !.gap = q.since + d,
               !.since = IF Emitted(q, q1) THEN 0 ELSE q.since + d]

\* "except S3Error / except Exception" of complete_iter in the run's record.
PartFailed(q) == [Terminal(q, "Error") EXCEPT !.pc = "done"]

\* One data block: the write with its retry, then the timer test.
SaveBlock ==
    LET q == vout
    IN  /\ q.pc = "write"
        /\ q.blk < NumBlocks(vin.size)
        /\ \E w1 \in BOOLEAN, d \in Durations : \E w2 \in Retry(w1) :
             LET q0 == [q EXCEPT !.calls = @ \o WriteCalls(q.offset, w1, w2)]
                 q1 == [q0 EXCEPT !.blk = @ + 1,
                                  !.offset = @ + BlockLen(vin.size, q.blk + 1)]
             IN  vout' = IF WriteOk(w1, w2)
                         THEN Since(q, IterationEnd(q1, d), d)
                         ELSE PartFailed(q0)
        /\ UNCHANGED <<status, parts, obj, req, vin>>

\* part.save(), "yield True", and the timer test of the combine loop.
SavePart ==
    LET q == vout
        q1 == [q EXCEPT !.pc = "meta", !.t_outer = Restart(q.t_outer)]
    IN  /\ q.pc = "write"
        /\ q.blk >= NumBlocks(vin.size)
        /\ \E ok \in BOOLEAN :
             vout' = IF ok
                     THEN Since(q, IF KeepAliveDue(q.t_outer) THEN KeepAlive(q1) ELSE q1, 0)
                     ELSE PartFailed(q)
        /\ UNCHANGED <<status, parts, obj, req, vin>>

\* update_obj_metedata after the last part.
UpdateMeta ==
    LET q == vout
    IN  /\ q.pc = "meta"
        /\ \E ok \in BOOLEAN :
             vout' = IF ok THEN [q EXCEPT !.pc = "done", !.meta_updated = TRUE]
                     ELSE PartFailed(q)
        /\ UNCHANGED <<status, parts, obj, req, vin>>

NextPart == SaveBlock \/ SavePart \/ UpdateMeta

SpecPart == InitPart /\ [][NextPart]_vars

\* The write calls a step adds.
NewCalls == SubSeq(vout'.calls, Len(vout.calls) + 1, Len(vout'.calls))

(***************************************************************************)
(* C23: a data block is written once, and a second time exactly when the   *)
(* first write failed, at the same offset; after a successful write the    *)
(* combine goes on at the next offset, after two failed writes the         *)
(* completion ends with the error payload, the object metadata not         *)
(* updated, and no write follows it.                                       *)
(***************************************************************************)
C23_WriteRetriedOnce ==
    [][/\ (vout.pc = "write" /\ vout.blk < NumBlocks(vin.size))
            => /\ Len(NewCalls) \in {1, 2}
               /\ Len(NewCalls) = 2 <=> ~NewCalls[1].ok
               /\ \A i \in 1..Len(NewCalls) : NewCalls[i].offset = vout.offset
               /\ IF NewCalls[Len(NewCalls)].ok
                  THEN /\ vout'.pc = "write"
                       /\ vout'.offset = vout.offset + BlockLen(vin.size, vout.blk + 1)
                  ELSE /\ vout'.pc = "done"
                       /\ LastUnit(vout') = "Error"
                       /\ ~vout'.meta_updated
       /\ (\E i \in 2..Len(vout.calls) : ~vout.calls[i - 1].ok /\ ~vout.calls[i].ok)
            => vout'.calls = vout.calls /\ ~vout'.meta_updated]_vars

\* A block was written at its second attempt, the next one failed twice.
C23_Witness ==
    /\ vout.pc = "done" /\ Len(vout.calls) = 4
    /\ ~vout.calls[1].ok /\ vout.calls[2].ok
    /\ ~vout.calls[3].ok /\ ~vout.calls[4].ok
    /\ vout.calls[3].offset = vout.calls[1].offset + ChunkSize
    /\ LastUnit(vout) = "Error" /\ ~vout.meta_updated

(***************************************************************************)
(* C26: at the end of a loop iteration one keep-alive unit is emitted when *)
(* 10 seconds or more have passed since the last emitted unit or the start *)
(* of the stream, and none when fewer have passed.                         *)
(***************************************************************************)
C26_KeepAliveEveryTenSeconds ==
    [][(vout.pc = "write" /\ vout'.pc \in {"write", "meta"})
          => /\ Len(vout'.out) <= Len(vout.out) + 1
             /\ Emitted(vout, vout') <=> vout'.gap >= 10]_vars

(***************************************************************************)
(* C24: a completion in whose cleanup more than half of the unused parts   *)
(* kept their part record (the deletion and its retry failed) ends with    *)
(* the error payload, not with the result payload.                         *)
(***************************************************************************)
UnusedFailed(q) == {n \in SeqToSet(q.unused) : parts[n].meta}

C24_CleanupMajorityEscalates ==
    [][\A r \in Slots :
          (/\ req[r].kind = "complete" /\ req[r].pc = "c_delete"
           /\ MajorityFailed(Cardinality(UnusedFailed(req[r])), Len(req[r].unused))
           /\ StepOf(r))
          => (req'[r].pc = "done" /\ LastUnit(req'[r]) = "Error")]_vars

(***************************************************************************)
(* The first request of a session under a server that drives every         *)
(* response to its end: each step of a handler is a store call or a yield  *)
(* that returns, so a handler that can take a step takes it.               *)
(***************************************************************************)
SpecStream == InitFirst /\ [][NextFirst]_vars /\ WF_vars(NextFirst)

\* The units emitted so far: the first one, and no other, carries the
\* preamble, and every unit before the last is a keep-alive unit.
StreamShape(q) ==
    \A i \in 1..Len(q.out) :
        /\ q.out[i].decl <=> i = 1
        /\ (i < Len(q.out) \/ q.pc # "done") => q.out[i].unit = "keepalive"

(***************************************************************************)
(* C25: a streamed completion response ends, whatever store calls fail;    *)
(* it is a run of keep-alive units followed by one terminal payload, the   *)
(* result or the error, and the preamble comes once, with the first unit.  *)
(***************************************************************************)
C25_StreamTerminatesWellFormed ==
    /\ [](\A r \in Slots :
            req[r].resp = "stream"
                => /\ StreamShape(req[r])
                   /\ req[r].pc = "done"
                         => /\ Len(req[r].out) >= 1
                            /\ LastUnit(req[r]) \in {"Result", "Error"})
    /\ \A r \in Slots : (req[r].resp = "stream") ~> (req[r].pc = "done")

\* A stream of two keep-alive units and the error payload.
C25_Witness ==
    \E r \in Slots :
        /\ req[r].pc = "done" /\ req[r].resp = "stream"
        /\ Len(req[r].out) = 3
        /\ req[r].out[1] = [unit |-> "keepalive", decl |-> TRUE]
        /\ req[r].out[2] = [unit |-> "keepalive", decl |-> FALSE]
        /\ req[r].out[3] = [unit |-> "Error", decl |-> FALSE]

(***************************************************************************)
(* C27: for a request whose Authorization header gives a Credential, every *)
(* failure on the way to the signature (a Credential that has not five     *)
(* fields, a signed header or the payload hash missing) and every          *)
(* signature that differs from the supplied one end in                     *)
(* AuthorizationHeaderMalformed (400), and so does a request that has no   *)
(* timestamp; a usable key ends in this error or in its principal.         *)
(***************************************************************************)
\* The header was parsed into a dictionary that holds a Credential.
GivesCredential(request) ==
    /\ get_credentials_from_header(request).raised = ""
    /\ ~get_credentials_from_header(request).isNone
    /\ "Credential" \in DOMAIN get_credentials_from_header(request).ret

\* Neither a Date nor an X-Amz-Date header.
NoTimestamp(request) == ~request.date.present /\ request.x_amz_date = None

\* The signature the server computes for the request with the secret of key.
ServerSignature(request, key) ==
    generate_signature(
        [s3_timestamp |-> get_credentials_from_header(request).s3_timestamp,
         s3_credential |-> get_credentials_from_header(request).ret["Credential"]],
        request,
        CredGet(get_credentials_from_header(request).ret, "SignedHeaders"),
        AuthKeys[key].secret_key)

Malformed(result) ==
    /\ result.raised = "AuthorizationHeaderMalformed"
    /\ status_code(result.raised) = 400

C27_MalformedCredential ==
    (vout.done /\ GivesCredential(vin.request) /\ ~HasCredential(vin.request))
        => Malformed(vout.result)

C27_NoTimestamp ==
    (vout.done /\ HasCredential(vin.request) /\ ~Unusable(NamedKey(vin.request))
        /\ NoTimestamp(vin.request))
        => Malformed(vout.result)

C27_Signature ==
    (vout.done /\ HasCredential(vin.request) /\ ~Unusable(NamedKey(vin.request)))
        => /\ vout.result.raised \in {"", "AuthorizationHeaderMalformed"}
           /\ vout.result.raised = "" => vout.result.kind = "principal"
           /\ (\/ ServerSignature(vin.request, NamedKey(vin.request)).raised # ""
               \/ "Signature" \notin DOMAIN get_credentials_from_header(vin.request).ret
               \/ ServerSignature(vin.request, NamedKey(vin.request)).ret
                     # get_credentials_from_header(vin.request).ret["Signature"])
                  => Malformed(vout.result)

C27_SignatureFailuresCoalesce ==
    C27_MalformedCredential /\ C27_NoTimestamp /\ C27_Signature

(***************************************************************************)
(* Two authentications on one S3V4Authentication object.  What the methods *)
(* keep on self (s3_timestamp, s3_credential, s3_signed_headers,           *)
(* _region_name, _service_name) is the object's; the request, the parsed   *)
(* credentials and the string to sign are each call's own.                 *)
(***************************************************************************)
Threads == {1, 2}

\* What each of the two clients may send: the three items or the keyword
\* alone; the usable key a and the unknown key x; four or five fields of
\* the Credential; the secret of a and another one; the timestamp in the
\* Date header, in the X-Amz-Date header, or in neither.
SharedValues ==
    [form |-> {"good", "bare"},
     access_key |-> {<<"a">>, <<"x">>},
     arity |-> {4, 5},
     secret_key |-> {<<"5">>, <<"6">>},
     stamp |-> {[date |-> [present |-> TRUE, valid |-> TRUE, instant |-> T1],
                 x_amz_date |-> None],
                [date |-> [present |-> FALSE, valid |-> FALSE, instant |-> <<>>],
                 x_amz_date |-> T2],
                [date |-> [present |-> FALSE, valid |-> FALSE, instant |-> <<>>],
                 x_amz_date |-> None]}]

SharedRequest(form, access_key, arity, secret_key, stamp) ==
    AuthRequest(form, access_key, arity, secret_key, <<>>, <<"1">>, <<"6">>,
                stamp.date, stamp.x_amz_date)

\* The object before its first call, and a call before its first step.
NewAuthenticator ==
    [s3_timestamp |-> None, s3_credential |-> None, s3_signed_headers |-> None,
     region_name |-> None, service_name |-> None]

NewCall == [pc |-> "header", string |-> <<>>, result |-> NoPrincipal]

InitShared ==
    /\ status = "uploading"
    /\ parts = [n \in PartNums |-> NoPart(n)]
    /\ obj = NoObject
    /\ req = [r \in Slots |-> IdleReq]
    /\ \E f1, f2 \in SharedValues.form, a1, a2 \in SharedValues.access_key,
          n1, n2 \in SharedValues.arity, k1, k2 \in SharedValues.secret_key,
          s1, s2 \in SharedValues.stamp :
           vin = [requests |-> <<SharedRequest(f1, a1, n1, k1, s1),
                                 SharedRequest(f2, a2, n2, k2, s2)>>]
    /\ vout = [self |-> NewAuthenticator, call |-> [t \in Threads |-> NewCall]]

\* A call ends with its result.
Return(t, self, result) ==
    vout' = [self |-> self,
             call |-> [vout.call EXCEPT ![t] = [@ EXCEPT !.pc = "done", !.result = result]]]

\* A call goes on at pc.
Goto(t, self, pc, string) ==
    vout' = [self |-> self,
             call |-> [vout.call EXCEPT ![t] = [@ EXCEPT !.pc = pc, !.string = string]]]

\* The header is of the scheme and holds more than the keyword, and the
\* timestamp headers are well-formed: line 67 is reached.
SetsTimestamp(request) ==
    /\ request.authorization.present
    /\ Lower(request.authorization.scheme) = Lower(keyword)
    /\ ~request.authorization.bare
    /\ get_timestamp_from_header(request).raised = ""

\* authenticate up to the return of get_credentials_from_header; a call that
\* gets no dictionary from the header ends as authenticate does.
GetCredentials(t) ==
    LET request == vin.requests[t]
        header == get_credentials_from_header(request)
        self == IF SetsTimestamp(request)
                THEN [vout.self EXCEPT
                         !.s3_timestamp = get_timestamp_from_header(request).ret]
                ELSE vout.self
    IN  /\ vout.call[t].pc = "header"
        /\ IF header.raised # "" \/ header.isNone
           THEN Return(t, self, authenticate(request))
           ELSE Goto(t, self, "credentials", <<>>)
        /\ UNCHANGED <<status, parts, obj, req, vin>>

\* authenticate_credentials up to the call of generate_signature.
AuthenticateCredentials(t) ==
    LET ret == get_credentials_from_header(vin.requests[t]).ret
        credential == CredGet(ret, "Credential")
        fields == split(credential, "/")
        self1 == [vout.self EXCEPT !.s3_credential = credential,
                                   !.s3_signed_headers = CredGet(ret, "SignedHeaders")]
        self2 == [self1 EXCEPT !.region_name = fields[3], !.service_name = fields[4]]
    IN  /\ vout.call[t].pc = "credentials"
        /\ IF credential = None THEN Return(t, self1, Raised("AttributeError"))
           ELSE IF Len(fields) # 5 THEN Return(t, self1, Raised("ValueError"))
           ELSE IF LookupFails(fields[1]) THEN Return(t, self2, Raised("InvalidAccessKeyId"))
           ELSE Goto(t, self2, "string", <<>>)
        /\ UNCHANGED <<status, parts, obj, req, vin>>

\* generate_signature: canonical_request and string_to_sign, which reads
\* self.s3_timestamp and self.s3_credential.
StringToSign(t) ==
    LET request == vin.requests[t]
        signed_headers == CredGet(get_credentials_from_header(request).ret, "SignedHeaders")
        ctx == [s3_timestamp |-> vout.self.s3_timestamp,
                s3_credential |-> vout.self.s3_credential]
    IN  /\ vout.call[t].pc = "string"
        /\ IF \/ signed_headers = None
              \/ canonical_request(request, signed_headers) = Raise
              \/ vout.self.s3_credential = None
           THEN Return(t, vout.self, Raised("AuthorizationHeaderMalformed"))
           ELSE Goto(t, vout.self, "signature",
                     string_to_sign(ctx, canonical_request(request, signed_headers)))
        /\ UNCHANGED <<status, parts, obj, req, vin>>

\* A credential with the region and the service the object holds.
ScopeOf(region_name, service_name) ==
    join(<<"/">>, <<<<>>, <<>>, region_name, service_name, <<>>>>)

\* generate_signature: signature, which reads self.s3_timestamp,
\* self._region_name and self._service_name; then the comparison with the
\* supplied signature.
CompareSignature(t) ==
    LET ret == get_credentials_from_header(vin.requests[t]).ret
        access_key == split(ret["Credential"], "/")[1]
        ctx == [s3_timestamp |-> vout.self.s3_timestamp,
                s3_credential |-> ScopeOf(vout.self.region_name, vout.self.service_name)]
        sig == signature(ctx, vout.call[t].string, AuthKeys[access_key].secret_key)
    IN  /\ vout.call[t].pc = "signature"
        /\ IF "Signature" \notin DOMAIN ret
           THEN Return(t, vout.self, Raised("AuthorizationHeaderMalformed"))
           ELSE IF sig # ret["Signature"]
           THEN Return(t, vout.self, Raised("AuthorizationHeaderMalformed"))
           ELSE Return(t, vout.self, Principal(access_key))
        /\ UNCHANGED <<status, parts, obj, req, vin>>

NextShared ==
    \E t \in Threads :
        \/ GetCredentials(t)
        \/ AuthenticateCredentials(t)
        \/ StringToSign(t)
        \/ CompareSignature(t)

SpecShared == InitShared /\ [][NextShared]_vars

(***************************************************************************)
(* C28: of two authentications interleaved on one authenticator, each ends *)
(* as it ends when run alone.                                              *)
(***************************************************************************)
C28_InterleavedAsAlone ==
    \A t \in Threads :
        vout.call[t].pc = "done"
            => vout.call[t].result = authenticate(vin.requests[t])

(***************************************************************************)
(* C29 as stated: validation fails with "invalid part" whenever a          *)
(* requested part number has no stored part or a used part's hash is       *)
(* missing or differs, after the quotes are stripped, from the stored one, *)
(* and passes only when every requested part is found with an equal hash.  *)
(***************************************************************************)
\* Some requested part number is not among the rows the store returns.
MissingPart ==
    \E n \in SeqToSet(vin.complete_numbers) :
        \A i \in 1..Len(vin.qs) : vin.qs[i].part_num # n

C29_InvalidPartWhenever ==
    vout.done =>
        /\ (MissingPart \/ \E i \in 1..Len(vin.qs) : BadHash(i))
              => vout.err = "InvalidPart"
        /\ vout.err = "none"
              => (~MissingPart /\ \A i \in 1..Len(vin.qs) : ~BadHash(i))

(***************************************************************************)
(* C29: validation fails with "invalid part" exactly when the first used   *)
(* part, in the order the store returns them, that fails a test has a      *)
(* missing or differing hash and is not too small itself (the message      *)
(* names its number), or no used part fails a test and a requested part    *)
(* number has no stored part; a request with such a part or such a number  *)
(* fails with "invalid part" or with "entity too small"; validation passes *)
(* exactly when every requested part is found with an equal hash and no    *)
(* used part but the highest is too small.                                 *)
(***************************************************************************)
\* The i-th row is the first that fails a test, and fails the hash test.
FirstFailureIsHash(i) ==
    /\ BadHash(i) /\ ~SmallNonHighest(i)
    /\ \A j \in 1..(i - 1) : ~BadHash(j) /\ ~SmallNonHighest(j)

C29_InvalidPartUnlessTooSmallFirst ==
    vout.done =>
        /\ (MissingPart \/ \E i \in 1..Len(vin.qs) : BadHash(i))
              => vout.err \in {"InvalidPart", "EntityTooSmall"}
        /\ vout.err = "InvalidPart"
              <=> \/ \E i \in 1..Len(vin.qs) : FirstFailureIsHash(i)
                  \/ /\ MissingPart
                     /\ \A i \in 1..Len(vin.qs) : ~BadHash(i) /\ ~SmallNonHighest(i)
        /\ \A i \in 1..Len(vin.qs) :
              FirstFailureIsHash(i) => vout.msg = vin.qs[i].part_num
        /\ vout.err = "none"
              <=> /\ ~MissingPart
                  /\ \A i \in 1..Len(vin.qs) : ~BadHash(i) /\ ~SmallNonHighest(i)

\* A request for a part that is not stored, every stored used part passing
\* its tests, failed with "invalid part".
C29_Witness ==
    /\ vout.done /\ vout.err = "InvalidPart"
    /\ MissingPart
    /\ \E i \in 1..Len(vin.qs) : InSeq(vin.qs[i].part_num, vin.complete_numbers)
    /\ \A i \in 1..Len(vin.qs) : ~BadHash(i) /\ ~SmallNonHighest(i)

====
